---------------------------- MODULE Spec2Model ----------------------------
(***************************************************************************)
(* A model of the generic expiring cache CachePro[T] of goCachePro.        *)
(*                                                                         *)
(* The state is that of one cachePro[T] object (its items map, default     *)
(* expiration, callbacks and mutex), the clock read through                *)
(* time.Now().UnixNano(), and one calling goroutine with its position      *)
(* inside Delete / DeleteExpired (the two operations that run callbacks).   *)
(* An operation whose whole body runs between one Lock and its Unlock and   *)
(* calls nothing outside the cache is one action; it reads the clock once.  *)
(***************************************************************************)
EXTENDS Integers, Sequences, FiniteSets, TLC

VARIABLES
    items,              \* c.items: the map, a function on the keys present
    defaultExpiration,  \* c.defaultExpiration
    onEvicted,          \* c.onEvicted: Nil or a callback
    delFunc,            \* c.delFunc: Nil or a destructor
    mu,                 \* c.mu: "unlocked" or "locked" (write lock held)
    now,                \* the value time.Now().UnixNano() returns
    pc,                 \* the calling goroutine's position
    frame,              \* locals of the Delete / DeleteExpired in progress
    calls,              \* callbacks invoked by the current or last operation
    ret,                \* the last finished operation and what it returned
    written,            \* per key: the Set that wrote it last, if nothing
                        \* mutated the key since (history, not program state)
    g,                  \* the goroutines that call the cache concurrently:
                        \* per goroutine, its call and its position in it
    items0,             \* the map those goroutines started from (history)
    jan,                \* the janitor goroutine, its stop channel and ticker,
                        \* and the finalizer of the cache's handle
    sc,                 \* a shardedCache: seed, m and the shards' maps cs
    snap                \* the map an Items() call returned, as its caller
                        \* holds it

vars == <<items, defaultExpiration, onEvicted, delFunc, mu, now, pc, frame,
          calls, ret, written, g, items0, jan, sc, snap>>

----------------------------------------------------------------------------
(* Bounds of the model. *)

MaxNow == 3        \* the clock runs over 1..MaxNow
MaxVal == 1        \* stored values are 0..MaxVal (T = int, zero value 0)
MaxTTL == 1        \* the small positive durations are 1..MaxTTL
MaxInt64 == 7      \* the largest int64, scaled down; also the largest Duration

(* Program constants. *)
NoExpiration == -1
DefaultExpiration == 0

Keys == {"a", "b"}
Values == 0 .. MaxVal
Zero == 0                                   \* "var zero T"
Durations == {NoExpiration, DefaultExpiration} \cup (1 .. MaxTTL) \cup {MaxInt64}
Funcs == {"mulinc", "first"}                \* the computeFunc arguments tried
Nil == "nil"
NoKey == "-"

----------------------------------------------------------------------------
(* Go built-ins and library calls the code uses. *)

\* m[k] = it
Put(m, k, it) == [x \in (DOMAIN m) \cup {k} |-> IF x = k THEN it ELSE m[x]]

\* delete(m, k)
Remove(m, k) == [x \in (DOMAIN m) \ {k} |-> m[x]]

\* map[string]ItemPro[T]{}
EmptyMap == [x \in {} |-> [Object |-> Zero, Expiration |-> 0]]

\* int64 two's-complement wrap-around of a sum of two non-negative int64
Wrap64(x) == IF x > MaxInt64 THEN x - 2 * (MaxInt64 + 1) ELSE x

\* time.Now().Add(d).UnixNano() when the clock reads t
UnixNanoAfter(t, d) == Wrap64(t + d)

\* computeFunc(a, b), for the functions the model passes in
Apply(f, a, b) ==
    IF f = "mulinc" THEN (a * b + 1) % (MaxVal + 1) ELSE a

----------------------------------------------------------------------------
(* The bodies of the methods, as operators on the map m, the clock          *)
(* reading t and the default expiration de.                                 *)

\* SetItem without the resolution of DefaultExpiration
SetItem_noDefault(de, t, x, d) ==
    [Object |-> x, Expiration |-> IF d > 0 THEN UnixNanoAfter(t, d) ELSE 0]

\* CachePro.Set, lines 35-46: the entry it stores
SetItem(de, t, x, d) ==
    LET d1 == IF d = DefaultExpiration THEN de ELSE d
        e  == IF d1 > 0 THEN UnixNanoAfter(t, d1) ELSE 0
    IN  [Object |-> x, Expiration |-> e]

\* set without the resolution of DefaultExpiration
set_noDefault(m, de, t, k, x, d) ==
    Put(m, k, [Object |-> x,
               Expiration |-> IF d > 0 THEN UnixNanoAfter(t, d) ELSE 0])

\* cachePro.set: the map after c.set(k, x, d)
set(m, de, t, k, x, d) ==
    LET d1 == IF d = DefaultExpiration THEN de ELSE d
        e  == IF d1 > 0 THEN UnixNanoAfter(t, d1) ELSE 0
    IN  Put(m, k, [Object |-> x, Expiration |-> e])

\* get without the test of the expiration
get_noExpiry(m, t, k) ==
    IF k \notin DOMAIN m THEN [v |-> Zero, found |-> FALSE]
    ELSE [v |-> m[k].Object, found |-> TRUE]

\* cachePro.get: (value, found)
get(m, t, k) ==
    IF k \notin DOMAIN m THEN [v |-> Zero, found |-> FALSE]
    ELSE IF m[k].Expiration > 0 /\ t > m[k].Expiration
         THEN [v |-> Zero, found |-> FALSE]
         ELSE [v |-> m[k].Object, found |-> TRUE]

\* Get taking an entry for expired from the instant of its expiration on
GetResult_atInstant(m, t, k) ==
    IF k \notin DOMAIN m THEN [v |-> Zero, found |-> FALSE]
    ELSE IF m[k].Expiration > 0
         THEN IF t >= m[k].Expiration
              THEN [v |-> Zero, found |-> FALSE]
              ELSE [v |-> m[k].Object, found |-> TRUE]
         ELSE [v |-> m[k].Object, found |-> TRUE]

\* CachePro.Get: (value, found), with get and Expired inlined
GetResult(m, t, k) ==
    IF k \notin DOMAIN m THEN [v |-> Zero, found |-> FALSE]
    ELSE IF m[k].Expiration > 0
         THEN IF t > m[k].Expiration
              THEN [v |-> Zero, found |-> FALSE]
              ELSE [v |-> m[k].Object, found |-> TRUE]
         ELSE [v |-> m[k].Object, found |-> TRUE]

\* time.Time{} and time.Unix(0, e)
ZeroTime == [isZero |-> TRUE, ns |-> 0]
UnixTime(e) == [isZero |-> FALSE, ns |-> e]

\* GetWithExpiration returning a stored entry with its expiration without
\* the test of the clock
GetWithExpirationResult_untested(m, t, k) ==
    IF k \notin DOMAIN m THEN [v |-> Zero, exp |-> ZeroTime, found |-> FALSE]
    ELSE IF m[k].Expiration > 0
         THEN [v |-> m[k].Object, exp |-> UnixTime(m[k].Expiration),
               found |-> TRUE]
         ELSE [v |-> m[k].Object, exp |-> ZeroTime, found |-> TRUE]

\* CachePro.GetWithExpiration: (value, expiration time, found)
GetWithExpirationResult(m, t, k) ==
    IF k \notin DOMAIN m THEN [v |-> Zero, exp |-> ZeroTime, found |-> FALSE]
    ELSE IF m[k].Expiration > 0
         THEN IF t > m[k].Expiration
              THEN [v |-> Zero, exp |-> ZeroTime, found |-> FALSE]
              ELSE [v |-> m[k].Object, exp |-> UnixTime(m[k].Expiration),
                    found |-> TRUE]
         ELSE [v |-> m[k].Object, exp |-> ZeroTime, found |-> TRUE]

\* CachePro.Items: the copy of the entries not expired at t
ItemsResult(m, t) ==
    LET live == {k \in DOMAIN m : ~(m[k].Expiration > 0 /\ t > m[k].Expiration)}
    IN  [k \in live |-> m[k]]

\* CachePro.ItemCount: len(c.items)
ItemCountResult(m) == Cardinality(DOMAIN m)

\* expired from the instant of the expiration on
expired_atInstant(it, t) == it.Expiration > 0 /\ t >= it.Expiration

\* expired without the test that an expiration is set
expired_noGuard(it, t) == t > it.Expiration

\* CachePro.DeleteExpired, line 208: the test on each entry, with now == t
expired(it, t) == it.Expiration > 0 /\ t > it.Expiration

\* a call computeFunc(a, b)
CallComputeFunc(f, a, b) ==
    [f |-> "computeFunc", fn |-> f, k |-> NoKey, v |-> <<a, b>>]

\* ComputeResult combining the stored value with defaultValue
ComputeResult_withDefault(m, t, k, f, def) ==
    IF k \notin DOMAIN m
    THEN [m |-> Put(m, k, [Object |-> def, Expiration |-> 0]), v |-> def, fcalls |-> <<>>]
    ELSE IF m[k].Expiration > 0 /\ t > m[k].Expiration
         THEN [m |-> Put(m, k, [Object |-> def, Expiration |-> 0]), v |-> def, fcalls |-> <<>>]
         ELSE LET newValue == Apply(f, m[k].Object, def)
              IN  [m |-> Put(m, k, [Object |-> newValue,
                                    Expiration |-> m[k].Expiration]),
                   v |-> newValue,
                   fcalls |-> <<CallComputeFunc(f, m[k].Object, def)>>]

\* CachePro.Compute: [m |-> the map after, v |-> the value returned,
\* fcalls |-> the calls of computeFunc it made]
ComputeResult(m, t, k, f, def) ==
    IF k \notin DOMAIN m
    THEN [m |-> Put(m, k, [Object |-> def, Expiration |-> 0]), v |-> def, fcalls |-> <<>>]
    ELSE IF m[k].Expiration > 0 /\ t > m[k].Expiration
         THEN [m |-> Put(m, k, [Object |-> def, Expiration |-> 0]), v |-> def, fcalls |-> <<>>]
         ELSE LET newValue == Apply(f, m[k].Object, m[k].Object)
              IN  [m |-> Put(m, k, [Object |-> newValue,
                                    Expiration |-> m[k].Expiration]),
                   v |-> newValue,
                   fcalls |-> <<CallComputeFunc(f, m[k].Object, m[k].Object)>>]

\* ComputeWithExpirationResult keeping the old expiration when it combines
ComputeWithExpirationResult_keeps(m, de, t, k, f, def, d) ==
    LET d1 == IF d = DefaultExpiration THEN de ELSE d
        e  == IF d1 > 0 THEN UnixNanoAfter(t, d1) ELSE 0
    IN  IF k \notin DOMAIN m
        THEN [m |-> Put(m, k, [Object |-> def, Expiration |-> e]), v |-> def, fcalls |-> <<>>]
        ELSE IF m[k].Expiration > 0 /\ t > m[k].Expiration
             THEN [m |-> Put(m, k, [Object |-> def, Expiration |-> e]),
                   v |-> def, fcalls |-> <<>>]
             ELSE LET newValue == Apply(f, m[k].Object, m[k].Object)
                  IN  [m |-> Put(m, k, [Object |-> newValue,
                                        Expiration |-> m[k].Expiration]),
                       v |-> newValue,
                   fcalls |-> <<CallComputeFunc(f, m[k].Object, m[k].Object)>>]

\* CachePro.ComputeWithExpiration: [m |-> the map after, v |-> returned]
ComputeWithExpirationResult(m, de, t, k, f, def, d) ==
    LET d1 == IF d = DefaultExpiration THEN de ELSE d
        e  == IF d1 > 0 THEN UnixNanoAfter(t, d1) ELSE 0
    IN  IF k \notin DOMAIN m
        THEN [m |-> Put(m, k, [Object |-> def, Expiration |-> e]), v |-> def, fcalls |-> <<>>]
        ELSE IF m[k].Expiration > 0 /\ t > m[k].Expiration
             THEN [m |-> Put(m, k, [Object |-> def, Expiration |-> e]),
                   v |-> def, fcalls |-> <<>>]
             ELSE LET newValue == Apply(f, m[k].Object, m[k].Object)
                  IN  [m |-> Put(m, k, [Object |-> newValue, Expiration |-> e]),
                       v |-> newValue,
                   fcalls |-> <<CallComputeFunc(f, m[k].Object, m[k].Object)>>]

\* ComputeTwoKeysResult passing the two values in the other order
ComputeTwoKeysResult_swapped(m, de, t, k1, k2, f, resultKey, d) ==
    LET d1 == IF d = DefaultExpiration THEN de ELSE d
        e  == IF d1 > 0 THEN UnixNanoAfter(t, d1) ELSE 0
    IN  IF k1 \notin DOMAIN m \/ k2 \notin DOMAIN m
        THEN [m |-> m, v |-> Zero, ok |-> FALSE, fcalls |-> <<>>]
        ELSE IF \/ (m[k1].Expiration > 0 /\ t > m[k1].Expiration)
                \/ (m[k2].Expiration > 0 /\ t > m[k2].Expiration)
        THEN [m |-> m, v |-> Zero, ok |-> FALSE, fcalls |-> <<>>]
        ELSE LET result == Apply(f, m[k2].Object, m[k1].Object)
             IN  [m |-> Put(m, resultKey, [Object |-> result, Expiration |-> e]),
                  v |-> result, ok |-> TRUE,
                  fcalls |-> <<CallComputeFunc(f, m[k2].Object, m[k1].Object)>>]

\* ComputeTwoKeysResult without the tests of the two expirations
ComputeTwoKeysResult_noExpiry(m, de, t, k1, k2, f, resultKey, d) ==
    LET d1 == IF d = DefaultExpiration THEN de ELSE d
        e  == IF d1 > 0 THEN UnixNanoAfter(t, d1) ELSE 0
    IN  IF k1 \notin DOMAIN m \/ k2 \notin DOMAIN m
        THEN [m |-> m, v |-> Zero, ok |-> FALSE, fcalls |-> <<>>]
        ELSE LET result == Apply(f, m[k1].Object, m[k2].Object)
             IN  [m |-> Put(m, resultKey, [Object |-> result, Expiration |-> e]),
                  v |-> result, ok |-> TRUE,
                  fcalls |-> <<CallComputeFunc(f, m[k1].Object, m[k2].Object)>>]

\* CachePro.ComputeTwoKeys: [m |-> the map after, v |-> returned,
\* ok |-> the error is nil]
ComputeTwoKeysResult(m, de, t, k1, k2, f, resultKey, d) ==
    LET d1 == IF d = DefaultExpiration THEN de ELSE d
        e  == IF d1 > 0 THEN UnixNanoAfter(t, d1) ELSE 0
    IN  IF k1 \notin DOMAIN m
        THEN [m |-> m, v |-> Zero, ok |-> FALSE, fcalls |-> <<>>]
        ELSE IF m[k1].Expiration > 0 /\ t > m[k1].Expiration
        THEN [m |-> m, v |-> Zero, ok |-> FALSE, fcalls |-> <<>>]
        ELSE IF k2 \notin DOMAIN m
        THEN [m |-> m, v |-> Zero, ok |-> FALSE, fcalls |-> <<>>]
        ELSE IF m[k2].Expiration > 0 /\ t > m[k2].Expiration
        THEN [m |-> m, v |-> Zero, ok |-> FALSE, fcalls |-> <<>>]
        ELSE LET result == Apply(f, m[k1].Object, m[k2].Object)
             IN  [m |-> Put(m, resultKey, [Object |-> result, Expiration |-> e]),
                  v |-> result, ok |-> TRUE,
                  fcalls |-> <<CallComputeFunc(f, m[k1].Object, m[k2].Object)>>]

\* newCachePro: the default expiration the constructor stores
newCachePro(de) == IF de = 0 THEN -1 ELSE de

----------------------------------------------------------------------------
(* History kept for the properties. *)

NoWrite == [set |-> FALSE, v |-> Zero, due |-> 0]

\* the record of a Set(k, x, d) made when the clock read t: the value and, for
\* a resolved duration d1 > 0, the instant t + d1 as an unbounded integer
\* (0 when the resolved duration is not positive: the entry is to stay)
SetRecord(de, t, x, d) ==
    LET d1 == IF d = DefaultExpiration THEN de ELSE d
    IN  [set |-> TRUE, v |-> x, due |-> IF d1 > 0 THEN t + d1 ELSE 0]

Forget(w, k) == [w EXCEPT ![k] = NoWrite]

\* what k holds in m
PreOf(m, k) ==
    IF k \in DOMAIN m
    THEN [had |-> TRUE, Object |-> m[k].Object, Expiration |-> m[k].Expiration]
    ELSE [had |-> FALSE, Object |-> Zero, Expiration |-> 0]

\* a call c.delFunc(v) and a call c.onEvicted(k, v), with the function the
\* field held when it was called
CallDelFunc(fn, v) == [f |-> "delFunc", fn |-> fn, k |-> NoKey, v |-> v]
CallOnEvicted(fn, k, v) == [f |-> "onEvicted", fn |-> fn, k |-> k, v |-> v]

\* a finished call: the method, its key, the value and the success it
\* returned, and (pre) what the properties need of the state it was called in
Result(op, k, v, ok, pre) == [op |-> op, k |-> k, v |-> v, ok |-> ok, pre |-> pre]
NoResult == Result("none", NoKey, Zero, TRUE, Zero)

\* The locals of Delete / DeleteExpired: op the method, k the key passed to
\* c.delete, v the object c.delete found under k, ov and evicted what
\* c.delete returned, now the clock reading of DeleteExpired, todo the keys
\* its range loop has not produced yet, evictedItems its slice.  had and old
\* are history: whether and with what object k was in the map when the
\* method called c.delete(k); fn is history too, the callback that was
\* configured when c.delete returned evicted.
NoFrame == [op |-> "none", k |-> NoKey, had |-> FALSE, old |-> Zero,
            v |-> Zero, ov |-> Zero, evicted |-> FALSE, now |-> 0,
            todo |-> {}, evictedItems |-> <<>>, fn |-> Nil]

\* no map returned by Items.  ref is the map the caller's variable refers
\* to: "fresh" for a map of its own, whose contents are m, "items" for the
\* cache's c.items
NoSnapshot == [ref |-> Nil, m |-> EmptyMap]

\* no sharded cache
NoShards == [seed |-> 0, m |-> 0, cs |-> <<>>]

\* a cache built with a cleanup interval <= 0: no janitor goroutine, no
\* finalizer.  kind is the cache type ("pro": CachePro, "sharded":
\* shardedCache), jpc the janitor's position, stop the field j.stop, fpc the
\* finalizer's position, fch the channel it sends on, tick whether the
\* ticker's channel holds a tick, ci the cleanup interval the cache was
\* built with
NoJanitor ==
    [kind |-> "pro", jpc |-> "none", stop |-> Nil, fpc |-> "none",
     fch |-> Nil, tick |-> FALSE, ci |-> 0]


----------------------------------------------------------------------------
(* Construction: NewPro(de, ci, DelFunc) with an empty map.  OnEvicted is  *)
(* nil until CachePro.OnEvicted sets it.                                   *)

Init ==
    /\ items = EmptyMap
    /\ \E de \in {DefaultExpiration, MaxTTL} : defaultExpiration = newCachePro(de)
    /\ onEvicted = Nil
    /\ delFunc \in {Nil, "destructor"}
    /\ mu = "unlocked"
    /\ now = 1
    /\ pc = "idle"
    /\ frame = NoFrame
    /\ calls = <<>>
    /\ ret = NoResult
    /\ written = [k \in Keys |-> NoWrite]
    /\ g = <<>>
    /\ items0 = EmptyMap
    /\ jan = NoJanitor
    /\ sc = NoShards
    /\ snap = NoSnapshot

\* what the calls of one goroutine leave as it is: the fields set at
\* construction, the state of the concurrent callers and of the janitor,
\* the sharded cache and the map Items returned
config == <<defaultExpiration, delFunc, g, items0, jan, sc, snap>>

\* an operation can start: the goroutine is between calls and the lock is free
CanCall == pc = "idle" /\ mu = "unlocked"

\* a method has returned (pc = "done", its result in ret, the callbacks it made
\* in calls); the goroutine goes on to its next call
Resume ==
    /\ pc = "done"
    /\ pc' = "idle"
    /\ ret' = NoResult
    /\ calls' = <<>>
    /\ UNCHANGED <<items, config, onEvicted, mu, now, frame, written>>

\* the clock advances (a finished call's result is read as it returns)
Tick ==
    /\ now < MaxNow
    /\ pc # "done"
    /\ now' = now + 1
    /\ UNCHANGED <<items, config, onEvicted, mu, pc, frame, calls, ret, written>>

\* Set telling the eviction callback of the entry it overwrites
Set_evictsOverwritten(k, x, d) ==
    /\ CanCall
    /\ items' = Put(items, k, SetItem(defaultExpiration, now, x, d))
    /\ written' = [written EXCEPT ![k] = SetRecord(defaultExpiration, now, x, d)]
    /\ ret' = Result("Set", k, x, TRUE, k \in DOMAIN items)
    /\ pc' = "done"
    /\ calls' = IF k \in DOMAIN items /\ onEvicted # Nil
                THEN Append(calls, CallOnEvicted(onEvicted, k, items[k].Object))
                ELSE calls
    /\ UNCHANGED <<config, onEvicted, mu, now, frame>>

Set(k, x, d) ==
    /\ CanCall
    /\ items' = Put(items, k, SetItem(defaultExpiration, now, x, d))
    /\ written' = [written EXCEPT ![k] = SetRecord(defaultExpiration, now, x, d)]
    /\ ret' = Result("Set", k, x, TRUE, k \in DOMAIN items)
    /\ pc' = "done"
    /\ UNCHANGED <<config, onEvicted, mu, now, frame, calls>>

Add(k, x, d) ==
    /\ CanCall
    /\ IF get(items, now, k).found
       THEN /\ ret' = Result("Add", k, x, FALSE, k \in DOMAIN items)
            /\ UNCHANGED <<items, written>>
       ELSE /\ items' = set(items, defaultExpiration, now, k, x, d)
            /\ written' = Forget(written, k)
            /\ ret' = Result("Add", k, x, TRUE, k \in DOMAIN items)
    /\ pc' = "done"
    /\ UNCHANGED <<config, onEvicted, mu, now, frame, calls>>

\* Replace passing the value it overwrites to the destructor
Replace_destructsOverwritten(k, x, d) ==
    /\ CanCall
    /\ IF ~get(items, now, k).found
       THEN /\ ret' = Result("Replace", k, x, FALSE, k \in DOMAIN items)
            /\ UNCHANGED <<items, written, calls>>
       ELSE /\ items' = set(items, defaultExpiration, now, k, x, d)
            /\ written' = Forget(written, k)
            /\ ret' = Result("Replace", k, x, TRUE, k \in DOMAIN items)
            /\ calls' = IF delFunc # Nil
                        THEN Append(calls, CallDelFunc(delFunc, items[k].Object))
                        ELSE calls
    /\ pc' = "done"
    /\ UNCHANGED <<config, onEvicted, mu, now, frame>>

Replace(k, x, d) ==
    /\ CanCall
    /\ IF ~get(items, now, k).found
       THEN /\ ret' = Result("Replace", k, x, FALSE, k \in DOMAIN items)
            /\ UNCHANGED <<items, written>>
       ELSE /\ items' = set(items, defaultExpiration, now, k, x, d)
            /\ written' = Forget(written, k)
            /\ ret' = Result("Replace", k, x, TRUE, k \in DOMAIN items)
    /\ pc' = "done"
    /\ UNCHANGED <<config, onEvicted, mu, now, frame, calls>>

Get(k) ==
    /\ CanCall
    /\ LET r == GetResult(items, now, k)
       IN  ret' = Result("Get", k, r.v, r.found, Zero)
    /\ pc' = "done"
    /\ UNCHANGED <<items, config, onEvicted, mu, now, frame, calls, written>>

GetWithExpiration(k) ==
    /\ CanCall
    /\ LET r == GetWithExpirationResult(items, now, k)
       IN  ret' = Result("GetWithExpiration", k, [v |-> r.v, exp |-> r.exp],
                         r.found, Zero)
    /\ pc' = "done"
    /\ UNCHANGED <<items, config, onEvicted, mu, now, frame, calls, written>>

Items ==
    /\ CanCall
    /\ ret' = Result("Items", NoKey, ItemsResult(items, now), TRUE, Zero)
    /\ pc' = "done"
    /\ UNCHANGED <<items, config, onEvicted, mu, now, frame, calls, written>>

ItemCount ==
    /\ CanCall
    /\ ret' = Result("ItemCount", NoKey, ItemCountResult(items), TRUE, Zero)
    /\ pc' = "done"
    /\ UNCHANGED <<items, config, onEvicted, mu, now, frame, calls, written>>

\* Flush running the destructor on an entry it drops
Flush_destructs ==
    /\ CanCall
    /\ items' = EmptyMap
    /\ written' = [k \in Keys |-> NoWrite]
    /\ ret' = Result("Flush", NoKey, Zero, TRUE, ItemCountResult(items))
    /\ pc' = "done"
    /\ calls' = IF delFunc # Nil /\ DOMAIN items # {}
                THEN <<CallDelFunc(delFunc,
                                   items[CHOOSE k \in DOMAIN items : TRUE].Object)>>
                ELSE calls
    /\ UNCHANGED <<config, onEvicted, mu, now, frame>>

Flush ==
    /\ CanCall
    /\ items' = EmptyMap
    /\ written' = [k \in Keys |-> NoWrite]
    /\ ret' = Result("Flush", NoKey, Zero, TRUE, ItemCountResult(items))
    /\ pc' = "done"
    /\ UNCHANGED <<config, onEvicted, mu, now, frame, calls>>

OnEvicted(f) ==
    /\ CanCall
    /\ onEvicted' = f
    /\ ret' = Result("OnEvicted", NoKey, Zero, TRUE, Zero)
    /\ pc' = "done"
    /\ UNCHANGED <<items, config, mu, now, frame, calls, written>>

Compute(k, f, def) ==
    /\ CanCall
    /\ LET r == ComputeResult(items, now, k, f, def)
       IN  /\ items' = r.m
           /\ calls' = r.fcalls
           /\ ret' = Result("Compute", k, r.v, TRUE, PreOf(items, k))
    /\ written' = Forget(written, k)
    /\ pc' = "done"
    /\ UNCHANGED <<config, onEvicted, mu, now, frame>>

ComputeWithExpiration(k, f, def, d) ==
    /\ CanCall
    /\ LET r == ComputeWithExpirationResult(items, defaultExpiration, now,
                                            k, f, def, d)
       IN  /\ items' = r.m
           /\ calls' = r.fcalls
           /\ ret' = Result("ComputeWithExpiration", k, r.v, TRUE,
                         PreOf(items, k))
    /\ written' = Forget(written, k)
    /\ pc' = "done"
    /\ UNCHANGED <<config, onEvicted, mu, now, frame>>

ComputeTwoKeys(k1, k2, f, resultKey, d) ==
    /\ CanCall
    /\ LET r == ComputeTwoKeysResult(items, defaultExpiration, now,
                                     k1, k2, f, resultKey, d)
       IN  /\ items' = r.m
           /\ calls' = r.fcalls
           /\ ret' = Result("ComputeTwoKeys", resultKey, r.v, r.ok,
                         <<k1, k2>>)
           /\ written' = IF r.ok THEN Forget(written, resultKey) ELSE written
    /\ pc' = "done"
    /\ UNCHANGED <<config, onEvicted, mu, now, frame>>

----------------------------------------------------------------------------
(* Delete and DeleteExpired, step by step: they call the destructor and    *)
(* the eviction callback, so the states in between are visible.            *)

\* CachePro.Delete: c.mu.Lock(), about to call c.delete(k)
Delete(k) ==
    /\ CanCall
    /\ mu' = "locked"
    /\ pc' = "delete"
    /\ frame' = [NoFrame EXCEPT !.op = "Delete", !.k = k,
                                !.had = k \in DOMAIN items,
                                !.old = IF k \in DOMAIN items
                                        THEN items[k].Object ELSE Zero]
    /\ written' = Forget(written, k)
    /\ UNCHANGED <<items, config, onEvicted, now, calls, ret>>

\* c.delete(k) returns (ov, evicted) to the method that called it:
\* Delete goes on to Unlock, DeleteExpired appends and goes on ranging
Returned(fr, ov, evicted) ==
    IF fr.op = "Delete"
    THEN [fr EXCEPT !.ov = ov, !.evicted = evicted,
                    !.fn = IF evicted THEN onEvicted ELSE @]
    ELSE [fr EXCEPT !.ov = ov, !.evicted = evicted,
                    !.fn = IF evicted THEN onEvicted ELSE @,
                    !.evictedItems = IF evicted
                                     THEN Append(@, [key |-> fr.k, value |-> ov])
                                     ELSE @]

ReturnTo(fr) == IF fr.op = "Delete" THEN "unlock" ELSE "range"

\* delete leaving the destructor out when an eviction callback is set
delete_skipsDestructor ==
    /\ pc = "delete"
    /\ IF frame.k \in DOMAIN items /\ delFunc # Nil /\ onEvicted = Nil
       THEN /\ pc' = "delFunc"
            /\ frame' = [frame EXCEPT !.v = items[frame.k].Object]
            /\ calls' = Append(calls, CallDelFunc(delFunc, items[frame.k].Object))
            /\ UNCHANGED items
       ELSE /\ items' = Remove(items, frame.k)
            /\ frame' = IF onEvicted # Nil /\ frame.k \in DOMAIN items
                        THEN Returned(frame, items[frame.k].Object, TRUE)
                        ELSE Returned(frame, Zero, FALSE)
            /\ pc' = ReturnTo(frame)
            /\ UNCHANGED calls
    /\ UNCHANGED <<config, onEvicted, mu, now, ret, written>>

\* cachePro.delete, from its entry to the call of c.delFunc or, if it calls
\* none, to its return
delete ==
    /\ pc = "delete"
    /\ IF frame.k \in DOMAIN items /\ delFunc # Nil
       THEN /\ pc' = "delFunc"
            /\ frame' = [frame EXCEPT !.v = items[frame.k].Object]
            /\ calls' = Append(calls, CallDelFunc(delFunc, items[frame.k].Object))
            /\ UNCHANGED items
       ELSE /\ items' = Remove(items, frame.k)
            /\ frame' = IF onEvicted # Nil /\ frame.k \in DOMAIN items
                        THEN Returned(frame, items[frame.k].Object, TRUE)
                        ELSE Returned(frame, Zero, FALSE)
            /\ pc' = ReturnTo(frame)
            /\ UNCHANGED calls
    /\ UNCHANGED <<config, onEvicted, mu, now, ret, written>>

\* cachePro.delete, from the return of c.delFunc to its own return
delFuncReturn ==
    /\ pc = "delFunc"
    /\ items' = Remove(items, frame.k)
    /\ frame' = IF onEvicted # Nil
                THEN Returned(frame, frame.v, TRUE)
                ELSE Returned(frame, Zero, FALSE)
    /\ pc' = ReturnTo(frame)
    /\ UNCHANGED <<config, onEvicted, mu, now, calls, ret, written>>

\* CachePro.Delete: c.mu.Unlock(), then "if evicted": on to the call of the
\* callback, or the return
DeleteUnlock ==
    /\ pc = "unlock"
    /\ mu' = "unlocked"
    /\ IF frame.evicted
       THEN /\ pc' = "evicted"
            /\ UNCHANGED <<frame, ret>>
       ELSE /\ pc' = "done"
            /\ ret' = Result("Delete", frame.k, frame.old, frame.had, Zero)
            /\ frame' = NoFrame
    /\ UNCHANGED <<items, config, onEvicted, now, calls, written>>

\* CachePro.Delete: "c.onEvicted(k, v)", the field read after the Unlock
DeleteCallback ==
    /\ pc = "evicted"
    /\ pc' = "onEvicted"
    /\ calls' = Append(calls, CallOnEvicted(onEvicted, frame.k, frame.ov))
    /\ UNCHANGED <<items, config, onEvicted, mu, now, frame, ret, written>>

\* c.onEvicted returns, to Delete (which returns) or to DeleteExpired's
\* second loop
onEvictedReturn ==
    /\ pc = "onEvicted"
    /\ IF frame.op = "Delete"
       THEN /\ pc' = "done"
            /\ ret' = Result("Delete", frame.k, frame.old, frame.had, Zero)
            /\ frame' = NoFrame
       ELSE /\ pc' = "callbacks"
            /\ UNCHANGED <<frame, ret>>
    /\ UNCHANGED <<items, config, onEvicted, mu, now, calls, written>>

\* CachePro.DeleteExpired: now := time.Now().UnixNano()
DeleteExpired ==
    /\ CanCall
    /\ pc' = "lock"
    /\ frame' = [NoFrame EXCEPT !.op = "DeleteExpired", !.now = now]
    /\ UNCHANGED <<items, config, onEvicted, mu, now, calls, ret, written>>

\* c.mu.Lock(), and the range loop starts on the map as it is now
DeleteExpiredLock ==
    /\ pc = "lock"
    /\ mu = "unlocked"
    /\ mu' = "locked"
    /\ pc' = "range"
    /\ frame' = [frame EXCEPT !.todo = DOMAIN items]
    /\ UNCHANGED <<items, config, onEvicted, now, calls, ret, written>>

\* one iteration of "for k, v := range c.items", in any order
DeleteExpiredRange ==
    /\ pc = "range"
    /\ \E k \in frame.todo :
          IF expired(items[k], frame.now)
          THEN /\ pc' = "delete"
               /\ frame' = [frame EXCEPT !.k = k, !.todo = @ \ {k},
                                         !.had = TRUE,
                                         !.old = items[k].Object]
          ELSE /\ frame' = [frame EXCEPT !.todo = @ \ {k}]
               /\ UNCHANGED pc
    /\ UNCHANGED <<items, config, onEvicted, mu, now, calls, ret, written>>

\* the range loop is over: c.mu.Unlock()
DeleteExpiredUnlock ==
    /\ pc = "range"
    /\ frame.todo = {}
    /\ mu' = "unlocked"
    /\ pc' = "callbacks"
    /\ UNCHANGED <<items, config, onEvicted, now, frame, calls, ret, written>>

\* "for _, v := range evictedItems": the next c.onEvicted(v.key, v.value),
\* or the return
DeleteExpiredCallbacks ==
    /\ pc = "callbacks"
    /\ IF frame.evictedItems # <<>>
       THEN /\ pc' = "onEvicted"
            /\ calls' = Append(calls, CallOnEvicted(onEvicted,
                                                    Head(frame.evictedItems).key,
                                                    Head(frame.evictedItems).value))
            /\ frame' = [frame EXCEPT !.evictedItems = Tail(@)]
            /\ UNCHANGED ret
       ELSE /\ pc' = "done"
            /\ ret' = Result("DeleteExpired", NoKey, Zero, TRUE, Zero)
            /\ frame' = NoFrame
            /\ UNCHANGED calls
    /\ UNCHANGED <<items, config, onEvicted, mu, now, written>>

----------------------------------------------------------------------------

Next ==
    \/ Tick
    \/ Resume
    \/ \E k \in Keys, x \in Values, d \in Durations : Set(k, x, d)
    \/ \E k \in Keys, x \in Values, d \in Durations : Add(k, x, d)
    \/ \E k \in Keys, x \in Values, d \in Durations : Replace(k, x, d)
    \/ \E k \in Keys : Get(k)
    \/ \E k \in Keys : GetWithExpiration(k)
    \/ Items
    \/ ItemCount
    \/ Flush
    \/ \E f \in {Nil, "callback"} : OnEvicted(f)
    \/ \E k \in Keys, f \in Funcs, def \in Values : Compute(k, f, def)
    \/ \E k \in Keys, f \in Funcs, def \in Values, d \in Durations :
          ComputeWithExpiration(k, f, def, d)
    \/ \E k1 \in Keys, k2 \in Keys, f \in Funcs, r \in Keys, d \in Durations :
          ComputeTwoKeys(k1, k2, f, r, d)
    \/ \E k \in Keys : Delete(k)
    \/ delete
    \/ delFuncReturn
    \/ DeleteUnlock
    \/ DeleteCallback
    \/ onEvictedReturn
    \/ DeleteExpired
    \/ DeleteExpiredLock
    \/ DeleteExpiredRange
    \/ DeleteExpiredUnlock
    \/ DeleteExpiredCallbacks

Spec == Init /\ [][Next]_vars

----------------------------------------------------------------------------
(* Properties.  An action property speaks of the step in which a method    *)
(* returns: Did(op) is that step for the method op.                        *)

Did(op) == pc # "done" /\ pc' = "done" /\ ret'.op = op

\* the resolved duration of a call made with d
Resolved(d) == IF d = DefaultExpiration THEN defaultExpiration ELSE d

\* the clock readings an int64 UnixNano can hold from t on
ClockFrom(t) == t .. MaxInt64

\* C1: after Set(k, x, NoExpiration) (a resolved duration that is not
\* positive), Get(k) returns (x, true) at every later time, whatever else is
\* called, until k itself is set, added, replaced, computed, deleted or flushed
C1_SetNoExpirationStays ==
    \A k \in Keys :
        (written[k].set /\ written[k].due = 0)
            => GetResult(items, now, k) = [v |-> written[k].v, found |-> TRUE]

\* C1 happens: a cache whose default is positive, so that the entry was set
\* with NoExpiration, has been swept by DeleteExpired at the latest clock
\* reading and still holds the entry
C1_Witness ==
    /\ defaultExpiration > 0
    /\ now = MaxNow
    /\ pc = "done" /\ ret.op = "DeleteExpired"
    /\ \E k \in Keys : written[k].set /\ written[k].due = 0 /\ k \in DOMAIN items

\* C2: after Set(k, x, d) with a positive resolved duration, made when the
\* clock read t, Get(k) returns (x, true) at every time strictly before t + d
\* and (zero, false) at every time after t + d, until k is mutated again
C2_SetWithTTL ==
    \A k \in Keys :
        (written[k].set /\ written[k].due > 0)
            => /\ now < written[k].due
                    => GetResult(items, now, k) = [v |-> written[k].v, found |-> TRUE]
               /\ now > written[k].due
                    => GetResult(items, now, k) = [v |-> Zero, found |-> FALSE]

\* C2 happens: the clock has passed t + d and the entry is still in the map
C2_Witness ==
    \E k \in Keys :
        /\ written[k].set /\ written[k].due > 0
        /\ now > written[k].due
        /\ k \in DOMAIN items

\* C3: Add(k, x, d) stores x under k (the entry Set would store) and returns
\* nil exactly when Get would not find k at the time of the call; when Get
\* would find k it returns an error and the map, hence k's value and
\* expiration, is as it was
C3_Add ==
    [][Did("Add") =>
       \A k \in Keys, x \in Values, d \in Durations :
          Add(k, x, d)
              => IF GetResult(items, now, k).found
                 THEN ~ret'.ok /\ items' = items
                 ELSE /\ ret'.ok
                      /\ items' = Put(items, k,
                                      SetItem(defaultExpiration, now, x, d))
                      /\ GetResult(items', now', k) = [v |-> x, found |-> TRUE]]_vars

\* C3 happens: Add has stored over an entry that was in the map, expired
C3_Witness ==
    /\ pc = "done" /\ ret.op = "Add" /\ ret.ok
    /\ written[ret.k] = NoWrite
    /\ ret.k \in DOMAIN items
    /\ ret.pre = TRUE

\* C4: Replace(k, x, d) stores x under k (the entry Set would store) and
\* returns nil exactly when Get would find k at the time of the call; when k
\* is absent or expired it returns an error and the map is as it was
C4_Replace ==
    [][Did("Replace") =>
       \A k \in Keys, x \in Values, d \in Durations :
          Replace(k, x, d)
              => IF GetResult(items, now, k).found
                 THEN /\ ret'.ok
                      /\ items' = Put(items, k,
                                      SetItem(defaultExpiration, now, x, d))
                      /\ GetResult(items', now', k) = [v |-> x, found |-> TRUE]
                 ELSE ~ret'.ok /\ items' = items]_vars

\* C4 happens: Replace has refused an entry that is in the map, expired
C4_Witness ==
    /\ pc = "done" /\ ret.op = "Replace" /\ ~ret.ok
    /\ ret.k \in DOMAIN items
    /\ ret.pre = TRUE

\* the callbacks a removal of (k, v) makes, in order: the destructor, if the
\* cache has one, then the eviction callback, if one is set
RemovalCalls(k, v) ==
    (IF delFunc # Nil THEN <<CallDelFunc(delFunc, v)>> ELSE <<>>)
        \o (IF onEvicted # Nil THEN <<CallOnEvicted(onEvicted, k, v)>> ELSE <<>>)

\* C5: when Delete(k) returns, k is not in the map, whether or not it had
\* expired; if k was in the map the destructor, if any, has been called
\* exactly once with the removed value and then the eviction callback, if
\* any, with k and that value; if k was not in the map nothing was called and
\* no step of the call changed the map
C5_Delete ==
    [][/\ Did("Delete")
          => /\ ret'.k \notin DOMAIN items'
             /\ ~GetResult(items', now', ret'.k).found
             /\ calls' = IF ret'.ok THEN RemovalCalls(ret'.k, ret'.v) ELSE <<>>
       /\ (frame.op = "Delete" /\ ~frame.had)
          => items' = items /\ calls' = <<>>
       /\ (frame.op = "Delete" /\ frame.had)
          => \A j \in Keys \ {frame.k} : PreOf(items', j) = PreOf(items, j)]_vars

\* C5 happens: Delete has removed an entry and made both calls
C5_Witness ==
    /\ pc = "done" /\ ret.op = "Delete" /\ ret.ok
    /\ Len(calls) = 2
    /\ calls[1].f = "delFunc" /\ calls[2].f = "onEvicted"

\* C6: no callback, eviction or destructor, runs while the cache lock is
\* held: whenever Delete or DeleteExpired is inside c.delFunc or c.onEvicted
\* the lock is free
C6_NoCallbackUnderLock ==
    pc \in {"delFunc", "onEvicted"} => mu = "unlocked"

\* C7: when Flush returns, the item count is 0 and no callback, eviction or
\* destructor, has been called
C7_Flush ==
    (pc = "done" /\ ret.op = "Flush")
        => /\ ItemCountResult(items) = 0
           /\ \A k \in Keys : ~GetResult(items, now, k).found
           /\ calls = <<>>

\* C7 happens: Flush has emptied a map that held entries, in a cache with
\* a destructor and an eviction callback
C7_Witness ==
    /\ pc = "done" /\ ret.op = "Flush"
    /\ ret.pre > 0
    /\ delFunc # Nil /\ onEvicted # Nil

\* C8: Compute(k, f, def) stores def under k with no expiration and returns
\* def when Get would not find k; when Get would find k with value cur it
\* stores and returns f(cur, cur) (def is not an argument of f) and the
\* entry keeps the expiration it had; no other key changes
C8_Compute ==
    [][Did("Compute") =>
       \A k \in Keys, f \in Funcs, def \in Values :
          Compute(k, f, def)
              => LET cur == GetResult(items, now, k)
                 IN  /\ k \in DOMAIN items'
                     /\ IF cur.found
                        THEN /\ ret'.v = Apply(f, cur.v, cur.v)
                             /\ items'[k] = [Object |-> Apply(f, cur.v, cur.v),
                                             Expiration |-> items[k].Expiration]
                        ELSE /\ ret'.v = def
                             /\ items'[k] = [Object |-> def, Expiration |-> 0]
                             /\ \A t \in ClockFrom(now) :
                                   GetResult(items', t, k) = [v |-> def, found |-> TRUE]
                     /\ \A j \in Keys \ {k} : PreOf(items', j) = PreOf(items, j)]_vars

\* C8 happens: Compute has combined the value of an entry that expires later
\* and the entry has that expiration still
C8_Witness ==
    /\ pc = "done" /\ ret.op = "Compute"
    /\ ret.pre.had /\ ret.pre.Expiration >= now
    /\ ret.v # ret.pre.Object
    /\ items[ret.k].Expiration = ret.pre.Expiration

\* C9: ComputeWithExpiration(k, f, def, d) stores and returns the value
\* Compute would (def, or f(cur, cur)) and, in both cases, gives the entry the
\* expiration Set would give it for d at the time of the call, never the one
\* it had: from then on Get finds the value at every clock reading before
\* call time + d and none after it when the resolved d is positive, and at
\* every clock reading when it is not
C9_ComputeWithExpiration ==
    [][Did("ComputeWithExpiration") =>
       \A k \in {ret'.k}, f \in Funcs, def \in Values, d \in Durations :
          ComputeWithExpiration(k, f, def, d)
              => LET cur == GetResult(items, now, k)
                     new == IF cur.found THEN Apply(f, cur.v, cur.v) ELSE def
                     d1  == Resolved(d)
                 IN  /\ ret'.v = new
                     /\ k \in DOMAIN items'
                     /\ items'[k] = SetItem(defaultExpiration, now, new, d)
                     /\ \A t \in ClockFrom(now) :
                           /\ (d1 > 0 /\ t < now + d1)
                                 => GetResult(items', t, k) = [v |-> new, found |-> TRUE]
                           /\ (d1 > 0 /\ t > now + d1)
                                 => ~GetResult(items', t, k).found
                           /\ d1 <= 0
                                 => GetResult(items', t, k) = [v |-> new, found |-> TRUE]
                     /\ \A j \in Keys \ {k} : PreOf(items', j) = PreOf(items, j)]_vars

\* C9 happens: ComputeWithExpiration has combined the value of an entry that
\* was live and given it another expiration than it had
C9_Witness ==
    /\ pc = "done" /\ ret.op = "ComputeWithExpiration"
    /\ ret.pre.had
    /\ (ret.pre.Expiration <= 0 \/ ret.pre.Expiration >= now)
    /\ ret.v # ret.pre.Object
    /\ items[ret.k].Expiration # ret.pre.Expiration
    /\ items[ret.k].Expiration > 0

\* C10: when Get would find both k1 (value v1) and k2 (value v2),
\* ComputeTwoKeys(k1, k2, f, r, d) returns (f(v1, v2), nil) and stores that
\* result under r with the expiration Set would give it for d, so that Get(r)
\* returns it; no key but r changes
C10_ComputeTwoKeys ==
    [][Did("ComputeTwoKeys") =>
       \A k1 \in {ret'.pre[1]}, k2 \in {ret'.pre[2]}, r \in {ret'.k},
          f \in Funcs, d \in Durations :
          ComputeTwoKeys(k1, k2, f, r, d)
              => LET g1 == GetResult(items, now, k1)
                     g2 == GetResult(items, now, k2)
                 IN  (g1.found /\ g2.found)
                        => LET result == Apply(f, g1.v, g2.v)
                           IN  /\ ret'.ok
                               /\ ret'.v = result
                               /\ r \in DOMAIN items'
                               /\ items'[r] = SetItem(defaultExpiration, now,
                                                      result, d)
                               /\ GetResult(items', now', r)
                                     = [v |-> result, found |-> TRUE]
                               /\ \A j \in Keys \ {r} :
                                     PreOf(items', j) = PreOf(items, j)]_vars

\* C10 happens: ComputeTwoKeys has combined two different keys holding
\* different values and stored the result under one of them
C10_Witness ==
    /\ pc = "done" /\ ret.op = "ComputeTwoKeys" /\ ret.ok
    /\ ret.pre[1] # ret.pre[2]
    /\ ret.k = ret.pre[1]
    /\ ret.pre[2] \in DOMAIN items
    /\ ret.v # items[ret.pre[2]].Object
    /\ items[ret.k].Expiration > 0

\* C11: when Get would not find k1 or would not find k2 (absent, or expired),
\* ComputeTwoKeys(k1, k2, f, r, d) returns (zero, error), has not called f,
\* and the whole map, the entry under r included, is as it was
C11_ComputeTwoKeysError ==
    [][Did("ComputeTwoKeys") =>
       \A k1 \in {ret'.pre[1]}, k2 \in {ret'.pre[2]}, r \in {ret'.k},
          f \in Funcs, d \in Durations :
          ComputeTwoKeys(k1, k2, f, r, d)
              => ((~GetResult(items, now, k1).found
                      \/ ~GetResult(items, now, k2).found)
                    => /\ ~ret'.ok
                       /\ ret'.v = Zero
                       /\ calls' = <<>>
                       /\ PreOf(items', r) = PreOf(items, r)
                       /\ items' = items)]_vars

\* C11 happens: ComputeTwoKeys has refused two keys that are both in the map,
\* one of them expired, and the result key is not in the map
C11_Witness ==
    /\ pc = "done" /\ ret.op = "ComputeTwoKeys" /\ ~ret.ok
    /\ ret.pre[1] \in DOMAIN items /\ ret.pre[2] \in DOMAIN items
    /\ ret.pre[1] # ret.pre[2]
    /\ GetResult(items, now, ret.pre[1]).found
    /\ calls = <<>>

----------------------------------------------------------------------------
(* Concurrent callers.  NProcs goroutines call one method each on the same  *)
(* cache, started from a map that earlier Sets left.  A call is a sequence  *)
(* of steps: c.mu.Lock(), the reads of c.items into locals, the write from  *)
(* the locals, c.mu.Unlock().  The clock stands still meanwhile and the     *)
(* cache has no callbacks.                                                  *)

NProcs == 2
Procs == 1 .. NProcs

\* the methods the goroutines call; those that read c.items before they write
Methods == {"Set", "Add", "Replace", "Delete", "Flush", "DeleteExpired",
            "Compute", "ComputeWithExpiration", "ComputeTwoKeys"}
Readers == {"Add", "Replace", "Compute", "ComputeWithExpiration",
            "ComputeTwoKeys"}

\* a goroutine that has not called yet: op the method, k (k2, r) its key
\* arguments, x its value argument (defaultValue for Compute), f its
\* computeFunc, loc what it has read of c.items, ok and v what it returns
IdleGoroutine ==
    [pc |-> "idle", op |-> "none", k |-> NoKey, k2 |-> NoKey, r |-> NoKey,
     x |-> Zero, f |-> "-", loc |-> EmptyMap, ok |-> TRUE, v |-> Zero]

\* the entries a map can hold when the goroutines start, the clock reading 2:
\* none, one that does not expire, one that expired at 1
StartClock == 2
StartEntries ==
    {[Object |-> v, Expiration |-> 0] : v \in Values}
        \cup {[Object |-> Zero, Expiration |-> StartClock - 1]}
StartMaps ==
    UNION {[K -> StartEntries] : K \in SUBSET Keys}

ConcInit ==
    /\ items \in StartMaps
    /\ items0 = items
    /\ defaultExpiration = newCachePro(DefaultExpiration)
    /\ onEvicted = Nil
    /\ delFunc = Nil
    /\ mu = "unlocked"
    /\ now = StartClock
    /\ g = [p \in Procs |-> IdleGoroutine]
    /\ pc = "idle"
    /\ frame = NoFrame
    /\ calls = <<>>
    /\ ret = NoResult
    /\ written = [k \in Keys |-> NoWrite]
    /\ jan = NoJanitor
    /\ sc = NoShards
    /\ snap = NoSnapshot

\* what the goroutines' steps leave as it is
fixed == <<defaultExpiration, onEvicted, delFunc, now, pc, frame, calls, ret,
           written, items0, jan, sc, snap>>

\* goroutine p calls the method op
Call(p, op, k, k2, r, x, f) ==
    /\ g[p].pc = "idle"
    /\ g' = [g EXCEPT ![p] = [IdleGoroutine EXCEPT !.pc = "lock", !.op = op,
                                                   !.k = k, !.k2 = k2, !.r = r,
                                                   !.x = x, !.f = f]]
    /\ UNCHANGED <<items, mu, fixed>>

\* sync.RWMutex.Lock: returns when no goroutine holds the lock
CanLock(m) == m = "unlocked"

\* Lock with the Compute methods taking the read lock, which other holders
\* of the read lock do not wait for
Lock_readLockForCompute(p) ==
    /\ g[p].pc = "lock"
    /\ CanLock(mu)
    /\ mu' = IF g[p].op \in {"Compute", "ComputeWithExpiration"}
             THEN mu ELSE "locked"
    /\ g' = [g EXCEPT ![p].pc = IF g[p].op \in Readers THEN "read" ELSE "write"]
    /\ UNCHANGED <<items, fixed>>

\* c.mu.Lock()
Lock(p) ==
    /\ g[p].pc = "lock"
    /\ CanLock(mu)
    /\ mu' = "locked"
    /\ g' = [g EXCEPT ![p].pc = IF g[p].op \in Readers THEN "read" ELSE "write"]
    /\ UNCHANGED <<items, fixed>>

\* the part of m a read of the key k loads into the locals
Load(loc, m, k) == IF k \in DOMAIN m THEN Put(loc, k, m[k]) ELSE loc

\* Read giving the lock up after the read
Read_unlocks(p) ==
    /\ g[p].pc = "read"
    /\ LET loc   == Load(EmptyMap, items, g[p].k)
           found == get(loc, now, g[p].k).found
           stop  == \/ g[p].op = "Add" /\ found
                    \/ g[p].op = "Replace" /\ ~found
                    \/ g[p].op = "ComputeTwoKeys" /\ ~found
       IN  g' = [g EXCEPT ![p].loc = loc,
                          ![p].ok = ~stop,
                          ![p].pc = IF stop THEN "unlock"
                                    ELSE IF g[p].op = "ComputeTwoKeys"
                                         THEN "read2" ELSE "write"]
    /\ mu' = "unlocked"
    /\ UNCHANGED <<items, fixed>>

\* the first read of c.items under the lock: c.get(k) in Add and Replace,
\* c.items[k] in the Compute methods, c.items[k1] in ComputeTwoKeys; Add,
\* Replace and ComputeTwoKeys go to their error return from here
Read(p) ==
    /\ g[p].pc = "read"
    /\ LET loc   == Load(EmptyMap, items, g[p].k)
           found == get(loc, now, g[p].k).found
           stop  == \/ g[p].op = "Add" /\ found
                    \/ g[p].op = "Replace" /\ ~found
                    \/ g[p].op = "ComputeTwoKeys" /\ ~found
       IN  g' = [g EXCEPT ![p].loc = loc,
                          ![p].ok = ~stop,
                          ![p].pc = IF stop THEN "unlock"
                                    ELSE IF g[p].op = "ComputeTwoKeys"
                                         THEN "read2" ELSE "write"]
    /\ UNCHANGED <<items, mu, fixed>>

\* Read2 giving the lock up after the read
Read2_unlocks(p) ==
    /\ g[p].pc = "read2"
    /\ LET loc   == Load(g[p].loc, items, g[p].k2)
           found == get(loc, now, g[p].k2).found
       IN  g' = [g EXCEPT ![p].loc = loc,
                          ![p].ok = found,
                          ![p].pc = IF found THEN "write" ELSE "unlock"]
    /\ mu' = "unlocked"
    /\ UNCHANGED <<items, fixed>>

\* ComputeTwoKeys: the read of c.items[k2] and its error return
Read2(p) ==
    /\ g[p].pc = "read2"
    /\ LET loc   == Load(g[p].loc, items, g[p].k2)
           found == get(loc, now, g[p].k2).found
       IN  g' = [g EXCEPT ![p].loc = loc,
                          ![p].ok = found,
                          ![p].pc = IF found THEN "write" ELSE "unlock"]
    /\ UNCHANGED <<items, mu, fixed>>

\* the map after the write of the method g[p].op, made from its arguments and
\* from what it has read (loc), and the value it returns
Written(gp, m, de, t) ==
    CASE gp.op = "Set" ->
           [m |-> Put(m, gp.k, SetItem(de, t, gp.x, NoExpiration)), v |-> Zero]
      [] gp.op \in {"Add", "Replace"} ->
           [m |-> set(m, de, t, gp.k, gp.x, NoExpiration), v |-> Zero]
      [] gp.op = "Delete" ->
           [m |-> Remove(m, gp.k), v |-> Zero]
      [] gp.op = "Flush" ->
           [m |-> EmptyMap, v |-> Zero]
      [] gp.op = "DeleteExpired" ->
           [m |-> [j \in {i \in DOMAIN m : ~expired(m[i], t)} |-> m[j]],
            v |-> Zero]
      [] gp.op = "Compute" ->
           LET c == ComputeResult(gp.loc, t, gp.k, gp.f, gp.x)
           IN  [m |-> Put(m, gp.k, c.m[gp.k]), v |-> c.v]
      [] gp.op = "ComputeWithExpiration" ->
           LET c == ComputeWithExpirationResult(gp.loc, de, t, gp.k, gp.f,
                                                gp.x, NoExpiration)
           IN  [m |-> Put(m, gp.k, c.m[gp.k]), v |-> c.v]
      [] gp.op = "ComputeTwoKeys" ->
           LET c == ComputeTwoKeysResult(gp.loc, de, t, gp.k, gp.k2, gp.f,
                                         gp.r, NoExpiration)
           IN  [m |-> Put(m, gp.r, c.m[gp.r]), v |-> c.v]

\* the write to c.items
Write(p) ==
    /\ g[p].pc = "write"
    /\ LET w == Written(g[p], items, defaultExpiration, now)
       IN  /\ items' = w.m
           /\ g' = [g EXCEPT ![p].v = w.v, ![p].pc = "unlock"]
    /\ UNCHANGED <<mu, fixed>>

\* c.mu.Unlock() and the return
Unlock(p) ==
    /\ g[p].pc = "unlock"
    /\ mu' = "unlocked"
    /\ g' = [g EXCEPT ![p].pc = "done"]
    /\ UNCHANGED <<items, fixed>>

ConcNext ==
    \/ \E p \in Procs, op \in {"Set", "Add", "Replace"}, k \in Keys,
          x \in Values : Call(p, op, k, NoKey, NoKey, x, "-")
    \/ \E p \in Procs, op \in {"Delete"}, k \in Keys :
          Call(p, op, k, NoKey, NoKey, Zero, "-")
    \/ \E p \in Procs, op \in {"Flush", "DeleteExpired"} :
          Call(p, op, NoKey, NoKey, NoKey, Zero, "-")
    \/ \E p \in Procs, op \in {"Compute", "ComputeWithExpiration"},
          k \in Keys, f \in Funcs, def \in Values :
          Call(p, op, k, NoKey, NoKey, def, f)
    \/ \E p \in Procs, k1 \in Keys, k2 \in Keys, r \in Keys, f \in Funcs :
          Call(p, "ComputeTwoKeys", k1, k2, r, Zero, f)
    \/ \E p \in Procs : Lock(p)
    \/ \E p \in Procs : Read(p)
    \/ \E p \in Procs : Read2(p)
    \/ \E p \in Procs : Write(p)
    \/ \E p \in Procs : Unlock(p)

ConcSpec == ConcInit /\ [][ConcNext]_vars

----------------------------------------------------------------------------
(* Properties of the concurrent callers. *)

\* goroutine q is between its c.mu.Lock() and its c.mu.Unlock()
Holding(q) == g[q].pc \in {"read", "read2", "write", "unlock"}

\* the step is goroutine p's write to c.items
Writes(p) == g[p].pc = "write" /\ g'[p].pc = "unlock"

AllDone == \A p \in Procs : g[p].pc = "done"

\* C12: from ComputeTwoKeys' read of k1 to its write of the result key no
\* other goroutine is inside a method, none enters one, and the map changes
\* only by that write; the write stores f(v1, v2) for the values v1, v2 the
\* map holds under k1 and k2 in the one state it is made in
C12_ComputeTwoKeysAtomic ==
    [][\A p \in Procs :
          (g[p].op = "ComputeTwoKeys" /\ g[p].pc \in {"read2", "write"})
              => /\ \A q \in Procs \ {p} :
                       ~Holding(q) /\ g'[q].pc \in {g[q].pc, "lock"}
                 /\ items' # items => Writes(p)
                 /\ Writes(p)
                       => /\ GetResult(items, now, g[p].k).found
                          /\ GetResult(items, now, g[p].k2).found
                          /\ LET result == Apply(g[p].f, items[g[p].k].Object,
                                                 items[g[p].k2].Object)
                             IN  /\ g'[p].v = result
                                 /\ items' = Put(items, g[p].r,
                                                 [Object |-> result,
                                                  Expiration |-> 0])]_vars

\* C12 happens: ComputeTwoKeys has written its result from two different
\* keys while a Set of its first key waits for the lock
C12_Witness ==
    \E p \in Procs, q \in Procs :
        /\ g[p].op = "ComputeTwoKeys" /\ g[p].pc = "unlock" /\ g[p].ok
        /\ g[p].k # g[p].k2
        /\ g[q].op = "Set" /\ g[q].pc = "lock" /\ g[q].k = g[p].k
        /\ g[q].x # items[g[p].k].Object

\* goroutine p's method can write an entry under k or remove a live one
Touches(p, k) ==
    \/ g[p].op \in {"Set", "Add", "Replace", "Delete", "Compute",
                    "ComputeWithExpiration"} /\ g[p].k = k
    \/ g[p].op = "ComputeTwoKeys" /\ g[p].r = k
    \/ g[p].op = "Flush"

\* the goroutines that called Add(k, ...)
Adders(k) == {p \in Procs : g[p].op = "Add" /\ g[p].k = k}

\* when all calls have returned: of the Adds of a key that Get did not find
\* at the start and that nothing but Adds touched, exactly one returned nil,
\* and the key holds the value that one passed
AddOutcome ==
    AllDone =>
        \A k \in Keys :
            (/\ Adders(k) # {}
             /\ \A p \in Procs : Touches(p, k) => p \in Adders(k)
             /\ ~GetResult(items0, StartClock, k).found)
                => /\ Cardinality({p \in Adders(k) : g[p].ok}) = 1
                   /\ \E p \in Adders(k) :
                         /\ g[p].ok
                         /\ GetResult(items, now, k) = [v |-> g[p].x, found |-> TRUE]

\* C16: Add's write happens in a state in which Get does not find the key, so
\* it never overwrites a live entry, and its error return in a state in which
\* Get finds it; of concurrent Adds of one absent key exactly one returns nil
\* and its value is the one stored
C16_AddAtomic ==
    [][/\ \A p \in Procs :
             (g[p].op = "Add" /\ Writes(p))
                 => /\ ~GetResult(items, now, g[p].k).found
                    /\ GetResult(items', now', g[p].k)
                          = [v |-> g[p].x, found |-> TRUE]
       /\ \A p \in Procs :
             (g[p].op = "Add" /\ g[p].pc = "unlock" /\ ~g[p].ok)
                 => GetResult(items, now, g[p].k).found /\ items' = items
       /\ AddOutcome']_vars

\* C16 happens: all the goroutines have added the same key, which the map
\* did not hold at the start, with different values; one has returned nil
C16_Witness ==
    /\ AllDone
    /\ \E k \in Keys :
          /\ k \notin DOMAIN items0
          /\ Adders(k) = Procs
          /\ \E p \in Procs, q \in Procs :
                g[p].ok /\ ~g[q].ok /\ g[p].x # g[q].x /\ items[k].Object = g[p].x

\* f applied n times in sequence to v, each time as computeFunc(cur, cur)
RECURSIVE Iterate(_, _, _)
Iterate(f, n, v) == IF n = 0 THEN v ELSE Iterate(f, n - 1, Apply(f, v, v))

\* when all calls have returned: if every goroutine called Compute or
\* ComputeWithExpiration with the same f on the same key, which Get found at
\* the start, the key holds f applied once per goroutine to the start value
ComputeOutcome ==
    AllDone =>
        \A k \in Keys, f \in Funcs :
            (/\ \A p \in Procs :
                   /\ g[p].op \in {"Compute", "ComputeWithExpiration"}
                   /\ g[p].k = k /\ g[p].f = f
             /\ GetResult(items0, StartClock, k).found)
                => GetResult(items, now, k)
                      = [v |-> Iterate(f, NProcs, items0[k].Object),
                         found |-> TRUE]

\* C17: while Compute or ComputeWithExpiration is between its read of k and
\* its write, the map holds under k what it has read and changes only by that
\* write (no Set or Delete takes effect in between); concurrent Computes of
\* one live key with the same f leave f applied once per call (none is lost)
C17_ComputeAtomic ==
    [][/\ \A p \in Procs :
             (g[p].op \in {"Compute", "ComputeWithExpiration"}
                 /\ g[p].pc = "write")
                 => /\ PreOf(items, g[p].k) = PreOf(g[p].loc, g[p].k)
                    /\ items' # items => Writes(p)
                    /\ \A q \in Procs \ {p} : g'[q].pc \in {g[q].pc, "lock"}
       /\ ComputeOutcome']_vars

\* C17 happens: all the goroutines have called Compute with the same f on the
\* same live key and have not all returned the same value
C17_Witness ==
    /\ AllDone
    /\ \E k \in Keys :
          /\ GetResult(items0, StartClock, k).found
          /\ \A p \in Procs :
                g[p].op = "Compute" /\ g[p].k = k /\ g[p].f = "mulinc"
          /\ \E p \in Procs, q \in Procs : g[p].v # g[q].v
----------------------------------------------------------------------------
(* The janitor.  A cache built with a cleanup interval > 0 starts a        *)
(* goroutine that sweeps on every tick and sets a finalizer on the handle  *)
(* the caller holds; the finalizer sends on the janitor's stop channel.    *)
(* Three goroutines take steps: the janitor, the runtime's finalizer       *)
(* goroutine and the user of the cache.  Channels are unbuffered: a send   *)
(* and its receive are one step, and a send on a nil channel never is.     *)

\* newCacheProWithJanitor: runJanitorPro makes the janitorPro with its stop
\* channel, stores it in c.janitor and starts "go j.Run(c)"; then the
\* finalizer is set
newCacheProWithJanitor(ci) ==
    IF ci > 0
    THEN [kind |-> "pro", jpc |-> "go", stop |-> "chan", fpc |-> "set",
          fch |-> Nil, tick |-> FALSE, ci |-> ci]
    ELSE [NoJanitor EXCEPT !.ci = ci]

\* unexportedNewSharded: runShardedJanitor makes the shardedJanitor with its
\* Interval only (stop is nil), stores it in sc.janitor and starts
\* "go j.Run(sc)"; then the finalizer is set
unexportedNewSharded(ci) ==
    IF ci > 0
    THEN [kind |-> "sharded", jpc |-> "go", stop |-> Nil, fpc |-> "set",
          fch |-> Nil, tick |-> FALSE, ci |-> ci]
    ELSE [NoJanitor EXCEPT !.kind = "sharded", !.ci = ci]

\* the cleanup intervals tried
Intervals == {-1, 0, 1}

JanitorInit ==
    /\ items = EmptyMap
    /\ defaultExpiration = newCachePro(MaxTTL)
    /\ onEvicted \in {Nil, "callback"}
    /\ delFunc \in {Nil, "destructor"}
    /\ mu = "unlocked"
    /\ now = 1
    /\ pc = "idle"
    /\ frame = NoFrame
    /\ calls = <<>>
    /\ ret = NoResult
    /\ written = [k \in Keys |-> NoWrite]
    /\ g = <<>>
    /\ items0 = EmptyMap
    /\ \E ci \in Intervals :
          jan \in {newCacheProWithJanitor(ci), unexportedNewSharded(ci)}
    /\ sc = NoShards
    /\ snap = NoSnapshot

\* what the janitor's and the finalizer's own steps leave as it is
cache == <<items, defaultExpiration, onEvicted, delFunc, mu, now, frame,
           written, g, items0, sc, snap>>

\* the janitor goroutine is scheduled and runs to its select: for the sharded
\* cache Run makes the stop channel here, for CachePro it makes the ticker
JanitorRun ==
    /\ jan.jpc = "go"
    /\ jan' = [jan EXCEPT !.jpc = "select",
                          !.stop = IF jan.kind = "sharded" THEN "chan" ELSE @]
    /\ UNCHANGED <<cache, pc, calls, ret>>

\* a timer that fires in the first interval only, in place of the ticker
TickerFires_oneShot ==
    /\ now = 1
    /\ jan.jpc \in {"select", "sweep"}
    /\ ~jan.tick
    /\ jan' = [jan EXCEPT !.tick = TRUE]
    /\ UNCHANGED <<cache, pc, calls, ret>>

\* the interval has passed: the ticker puts a tick in its channel (which
\* holds one)
TickerFires ==
    /\ jan.jpc \in {"select", "sweep"}
    /\ ~jan.tick
    /\ jan' = [jan EXCEPT !.tick = TRUE]
    /\ UNCHANGED <<cache, pc, calls, ret>>

\* select, "case <-ticker.C": the janitor goes to DeleteExpired
JanitorTick ==
    /\ jan.jpc = "select"
    /\ jan.tick
    /\ jan' = [jan EXCEPT !.jpc = "sweep", !.tick = FALSE]
    /\ UNCHANGED <<cache, pc, calls, ret>>

\* the steps of the janitor's c.DeleteExpired() on a CachePro
JanitorDeleteExpired ==
    /\ jan.kind = "pro"
    /\ jan.jpc = "sweep"
    /\ \/ DeleteExpired
       \/ DeleteExpiredLock
       \/ DeleteExpiredRange
       \/ delete
       \/ delFuncReturn
       \/ DeleteExpiredUnlock
       \/ DeleteExpiredCallbacks
       \/ onEvictedReturn

\* DeleteExpired returns and the janitor is back at its select.  The sweep
\* of a sharded cache (sc.DeleteExpired, one DeleteExpired per shard) is
\* this one step: the shards' type is defined outside this source
JanitorSweepReturns ==
    /\ jan.jpc = "sweep"
    /\ jan' = [jan EXCEPT !.jpc = "select"]
    /\ IF jan.kind = "pro"
       THEN /\ pc = "done"
            /\ pc' = "idle"
            /\ ret' = NoResult
            /\ calls' = <<>>
       ELSE UNCHANGED <<pc, calls, ret>>
    /\ UNCHANGED cache

\* the user's goroutine, while it still holds the handle, calls Set
UserSet(k, x, d) ==
    /\ jan.kind = "pro"
    /\ jan.fpc \in {"none", "set"}
    /\ mu = "unlocked"
    /\ items' = set(items, defaultExpiration, now, k, x, d)
    /\ UNCHANGED <<defaultExpiration, onEvicted, delFunc, mu, now, frame,
                   written, g, items0, jan, sc, snap, pc, calls, ret>>

\* the clock advances
ClockTick ==
    /\ now < MaxNow
    /\ now' = now + 1
    /\ UNCHANGED <<items, defaultExpiration, onEvicted, delFunc, mu, frame,
                   written, g, items0, jan, sc, snap, pc, calls, ret>>

\* the user drops the handle and the garbage collector finds it unreachable:
\* the runtime calls the finalizer, stopJanitorPro or stopShardedJanitor
Unreachable ==
    /\ jan.fpc = "set"
    /\ jan' = [jan EXCEPT !.fpc = "called"]
    /\ UNCHANGED <<cache, pc, calls, ret>>

\* the finalizer evaluates the channel operand, c.janitor.stop.  CachePro's
\* channel was made before the finalizer was set.  The sharded janitor
\* writes j.stop in its own goroutine with no synchronisation with this
\* read: the read yields nil or the channel, nil at least until Run has run
FinalizerRead ==
    /\ jan.fpc = "called"
    /\ \E ch \in IF jan.kind = "sharded" THEN {Nil, jan.stop} ELSE {jan.stop} :
          jan' = [jan EXCEPT !.fpc = "send", !.fch = ch]
    /\ UNCHANGED <<cache, pc, calls, ret>>

\* a janitor that takes the stop signal in the middle of a sweep
StopRendezvous_duringSweep ==
    /\ jan.fpc = "send"
    /\ jan.fch # Nil
    /\ jan.jpc \in {"select", "sweep"}
    /\ jan.stop = jan.fch
    /\ jan' = [jan EXCEPT !.fpc = "sent", !.jpc = "returned"]
    /\ UNCHANGED <<cache, pc, calls, ret>>

\* "stop <- true" meets "case <-j.stop": the send completes, the janitor
\* (stops its ticker and) returns
StopRendezvous ==
    /\ jan.fpc = "send"
    /\ jan.fch # Nil
    /\ jan.jpc = "select"
    /\ jan.stop = jan.fch
    /\ jan' = [jan EXCEPT !.fpc = "sent", !.jpc = "returned"]
    /\ UNCHANGED <<cache, pc, calls, ret>>

\* every step the janitor goroutine takes on its own
JanitorStep ==
    \/ JanitorRun
    \/ JanitorTick
    \/ JanitorDeleteExpired
    \/ JanitorSweepReturns

JanitorNext ==
    \/ JanitorRun
    \/ TickerFires
    \/ JanitorTick
    \/ jan.kind = "pro" /\ jan.jpc = "sweep" /\ DeleteExpired
    \/ jan.kind = "pro" /\ jan.jpc = "sweep" /\ DeleteExpiredLock
    \/ jan.kind = "pro" /\ jan.jpc = "sweep" /\ DeleteExpiredRange
    \/ jan.kind = "pro" /\ jan.jpc = "sweep" /\ delete
    \/ jan.kind = "pro" /\ jan.jpc = "sweep" /\ delFuncReturn
    \/ jan.kind = "pro" /\ jan.jpc = "sweep" /\ DeleteExpiredUnlock
    \/ jan.kind = "pro" /\ jan.jpc = "sweep" /\ DeleteExpiredCallbacks
    \/ jan.kind = "pro" /\ jan.jpc = "sweep" /\ onEvictedReturn
    \/ JanitorSweepReturns
    \/ \E k \in Keys, x \in Values, d \in {DefaultExpiration, NoExpiration} :
          UserSet(k, x, d)
    \/ ClockTick
    \/ Unreachable
    \/ FinalizerRead
    \/ StopRendezvous

\* The scheduler runs every goroutine that can take a step (WF on the
\* janitor's and the finalizer's steps), time passes (WF on the ticker), and
\* a select with several ready cases picks one at random, so a sender that
\* is ready whenever the janitor is at its select is received from: SF
JanitorSpec ==
    /\ JanitorInit
    /\ [][JanitorNext]_vars
    /\ WF_vars(JanitorStep)
    /\ WF_vars(TickerFires)
    /\ WF_vars(FinalizerRead)
    /\ SF_vars(StopRendezvous)

----------------------------------------------------------------------------
(* Properties of the janitor                                               *)

\* the finalizer has been called and has not completed its send
Stopping == jan.fpc \in {"called", "send"}

\* the janitor goroutine has returned and the finalizer's send is over
Stopped == jan.jpc = "returned" /\ jan.fpc = "sent"

\* CachePro: a stop that was sent is received and the janitor returns,
\* whether it had started, was at its select or in a sweep
ProJanitorStops == (jan.kind = "pro" /\ Stopping) ~> Stopped

\* C13: once the stop signal is sent, for a single or a sharded cache, the
\* janitor goroutine terminates and the sender does not block forever, in
\* every interleaving with the janitor's start-up and with a sweep
C13_StopTerminates == Stopping ~> Stopped

----------------------------------------------------------------------------
(* The sharded cache: a seed, a shard count m and m caches; a key is       *)
(* routed to the shard djb33(seed, k) % m.  A key is the sequence of its   *)
(* bytes.  uint32 is scaled down to WordBits bits, the final shift to half *)
(* of that.  The shards are of type *cache, defined outside this source:   *)
(* their Set, Add, Replace, Get, Delete, DeleteExpired and Flush are taken *)
(* to be those of cachePro without destructor and eviction callback.       *)

WordBits == 16
Word == 2 ^ WordBits
MaxShards == 3

RECURSIVE Xor(_, _)
\* a ^ b on naturals
Xor(a, b) ==
    IF a = 0 THEN b
    ELSE IF b = 0 THEN a
    ELSE 2 * Xor(a \div 2, b \div 2) + ((a + b) % 2)

\* d = (d * 33) ^ uint32(b)
Mix(d, b) == Xor((d * 33) % Word, b)

RECURSIVE djb33Loop(_, _, _)
\* "for i < l-4": four bytes a round (k[i] of the source is k[i + 1] here)
djb33Loop(d, i, k) ==
    IF i < Len(k) - 4
    THEN djb33Loop(Mix(Mix(Mix(Mix(d, k[i + 1]), k[i + 2]), k[i + 3]), k[i + 4]),
                   i + 4, k)
    ELSE [d |-> d, i |-> i]

djb33(seed, k) ==
    LET l  == Len(k)
        d0 == (5381 + seed + l) % Word
        lp == IF l >= 4 THEN djb33Loop(d0, 0, k) ELSE [d |-> d0, i |-> 0]
        i  == lp.i
        d  == CASE l - i = 2 -> Mix(lp.d, k[i + 1])
                [] l - i = 3 -> Mix(Mix(lp.d, k[i + 1]), k[i + 2])
                [] l - i = 4 -> Mix(Mix(Mix(lp.d, k[i + 1]), k[i + 2]), k[i + 3])
                [] OTHER     -> lp.d
    IN  Xor(d, d \div (2 ^ (WordBits \div 2)))

\* a router that depends on what the first shard holds
bucket_byLoad(s, k) ==
    (djb33(s.seed, k) + Cardinality(DOMAIN s.cs[0])) % s.m

\* shardedCache.bucket: the index of the shard of k
bucket(s, k) == djb33(s.seed, k) % s.m

\* newShardedCache(n, de) with the seed the random source gave
newShardedCache(n, seed) ==
    [seed |-> seed, m |-> n % Word, cs |-> [i \in 0 .. n - 1 |-> EmptyMap]]

\* the keys, seeds and durations tried
ShardKeys == {<<97, 98>>, <<97, 98, 99, 100, 101>>}
Seeds == {0, Word - 1}
ShardDurations == {NoExpiration, DefaultExpiration}

\* unexportedNewSharded(de, 0, n) for n >= 1 (with n = 0 every routed call
\* divides by zero)
ShardedInit ==
    /\ \E n \in 1 .. MaxShards, seed \in Seeds : sc = newShardedCache(n, seed)
    /\ defaultExpiration = newCachePro(MaxTTL)
    /\ written = [k \in ShardKeys |-> NoWrite]
    /\ items = EmptyMap
    /\ onEvicted = Nil
    /\ delFunc = Nil
    /\ mu = "unlocked"
    /\ now = 1
    /\ pc = "idle"
    /\ frame = NoFrame
    /\ calls = <<>>
    /\ ret = NoResult
    /\ g = <<>>
    /\ items0 = EmptyMap
    /\ jan = NoJanitor
    /\ snap = NoSnapshot

\* what the sharded cache's methods leave as it is
single == <<items, defaultExpiration, onEvicted, delFunc, mu, now, frame,
            calls, g, items0, jan, snap>>

\* the shards of s with shard i holding m
WithShard(s, i, m) == [s EXCEPT !.cs[i] = m]

\* sc.bucket(k).Set(k, x, d)
ShardedSet(k, x, d) ==
    /\ pc = "idle"
    /\ LET i == bucket(sc, k)
       IN  /\ sc' = WithShard(sc, i, set(sc.cs[i], defaultExpiration, now, k, x, d))
           /\ ret' = Result("Set", k, x, TRUE, i)
    /\ written' = [written EXCEPT ![k] = SetRecord(defaultExpiration, now, x, d)]
    /\ pc' = "done"
    /\ UNCHANGED single

\* sc.bucket(k).Add(k, x, d)
ShardedAdd(k, x, d) ==
    /\ pc = "idle"
    /\ LET i == bucket(sc, k)
       IN  IF get(sc.cs[i], now, k).found
           THEN /\ ret' = Result("Add", k, x, FALSE, i)
                /\ UNCHANGED <<sc, written>>
           ELSE /\ sc' = WithShard(sc, i, set(sc.cs[i], defaultExpiration, now, k, x, d))
                /\ written' = Forget(written, k)
                /\ ret' = Result("Add", k, x, TRUE, i)
    /\ pc' = "done"
    /\ UNCHANGED single

\* sc.bucket(k).Replace(k, x, d)
ShardedReplace(k, x, d) ==
    /\ pc = "idle"
    /\ LET i == bucket(sc, k)
       IN  IF ~get(sc.cs[i], now, k).found
           THEN /\ ret' = Result("Replace", k, x, FALSE, i)
                /\ UNCHANGED <<sc, written>>
           ELSE /\ sc' = WithShard(sc, i, set(sc.cs[i], defaultExpiration, now, k, x, d))
                /\ written' = Forget(written, k)
                /\ ret' = Result("Replace", k, x, TRUE, i)
    /\ pc' = "done"
    /\ UNCHANGED single

\* sc.bucket(k).Get(k)
ShardedGet(k) ==
    /\ pc = "idle"
    /\ LET i == bucket(sc, k)
           r == GetResult(sc.cs[i], now, k)
       IN  ret' = Result("Get", k, r.v, r.found, i)
    /\ pc' = "done"
    /\ UNCHANGED <<single, sc, written>>

\* sc.bucket(k).Delete(k)
ShardedDelete(k) ==
    /\ pc = "idle"
    /\ LET i == bucket(sc, k)
       IN  /\ sc' = WithShard(sc, i, Remove(sc.cs[i], k))
           /\ ret' = Result("Delete", k, Zero, k \in DOMAIN sc.cs[i], i)
    /\ written' = Forget(written, k)
    /\ pc' = "done"
    /\ UNCHANGED single

\* what a shard's DeleteExpired leaves of m when the clock reads t
Swept(m, t) == [k \in {x \in DOMAIN m : ~expired(m[x], t)} |-> m[k]]

\* "for _, v := range sc.cs { v.DeleteExpired() }"
ShardedDeleteExpired ==
    /\ pc = "idle"
    /\ sc' = [sc EXCEPT !.cs = [i \in DOMAIN sc.cs |-> Swept(sc.cs[i], now)]]
    /\ ret' = Result("DeleteExpired", NoKey, Zero, TRUE, Zero)
    /\ pc' = "done"
    /\ UNCHANGED <<single, written>>

\* sc.bucket(k).Increment(k, n) and, with n negated, Decrement(k, n): the
\* shard adds n to the value of an entry that Get would find and keeps its
\* expiration, and returns an error for any other k.  Values are bounded:
\* the call is made only where the sum is a value
ShardedIncrement(op, k, n) ==
    /\ pc = "idle"
    /\ LET i == bucket(sc, k)
           r == get(sc.cs[i], now, k)
       IN  IF ~r.found
           THEN /\ ret' = Result(op, k, Zero, FALSE, i)
                /\ UNCHANGED <<sc, written>>
           ELSE /\ r.v + n \in Values
                /\ sc' = WithShard(sc, i, Put(sc.cs[i], k,
                              [Object |-> r.v + n,
                               Expiration |-> sc.cs[i][k].Expiration]))
                /\ written' = Forget(written, k)
                /\ ret' = Result(op, k, r.v + n, TRUE, i)
    /\ pc' = "done"
    /\ UNCHANGED single

\* "res[i] = v.Items()" for every shard i
ShardedItems ==
    /\ pc = "idle"
    /\ ret' = Result("Items", NoKey,
                     [i \in DOMAIN sc.cs |-> ItemsResult(sc.cs[i], now)],
                     TRUE, Zero)
    /\ pc' = "done"
    /\ UNCHANGED <<single, sc, written>>

\* a Flush that stops after the first shard
ShardedFlush_firstShard ==
    /\ pc = "idle"
    /\ sc' = [sc EXCEPT !.cs[0] = EmptyMap]
    /\ written' = [k \in ShardKeys |-> NoWrite]
    /\ ret' = Result("Flush", NoKey, Zero, TRUE, Zero)
    /\ pc' = "done"
    /\ UNCHANGED single

\* "for _, v := range sc.cs { v.Flush() }"
ShardedFlush ==
    /\ pc = "idle"
    /\ sc' = [sc EXCEPT !.cs = [i \in DOMAIN sc.cs |-> EmptyMap]]
    /\ written' = [k \in ShardKeys |-> NoWrite]
    /\ ret' = Result("Flush", NoKey, Zero, TRUE, Zero)
    /\ pc' = "done"
    /\ UNCHANGED single

\* the call has returned; the caller goes on
ShardedResume ==
    /\ pc = "done"
    /\ pc' = "idle"
    /\ ret' = NoResult
    /\ UNCHANGED <<single, sc, written>>

\* the clock advances
ShardedTick ==
    /\ now < MaxNow
    /\ pc = "idle"
    /\ now' = now + 1
    /\ UNCHANGED <<items, defaultExpiration, onEvicted, delFunc, mu, frame,
                   calls, g, items0, jan, snap, sc, written, pc, ret>>

ShardedNext ==
    \/ \E k \in ShardKeys, x \in Values, d \in ShardDurations : ShardedSet(k, x, d)
    \/ \E k \in ShardKeys, x \in Values, d \in ShardDurations : ShardedAdd(k, x, d)
    \/ \E k \in ShardKeys, x \in Values, d \in ShardDurations : ShardedReplace(k, x, d)
    \/ \E k \in ShardKeys : ShardedGet(k)
    \/ \E k \in ShardKeys : ShardedDelete(k)
    \/ \E k \in ShardKeys : ShardedIncrement("Increment", k, 1)
    \/ \E k \in ShardKeys : ShardedIncrement("Decrement", k, -1)
    \/ ShardedItems
    \/ ShardedDeleteExpired
    \/ ShardedFlush
    \/ ShardedResume
    \/ ShardedTick

ShardedSpec == ShardedInit /\ [][ShardedNext]_vars

----------------------------------------------------------------------------
(* Properties of the sharded cache                                         *)

\* the shards that hold k
ShardsOf(s, k) == {i \in DOMAIN s.cs : k \in DOMAIN s.cs[i]}

\* C14: the seed and the shard count never change; for every key the routed
\* index is the same before and after every step and lies in 0 .. m - 1;
\* every single-key call on k reached that shard, so k is stored in no other
\* shard, hence in at most one; and a Get(k) that follows a Set(k, v), with
\* no other mutation of k in between and v not yet expired, returns v
C14_Router ==
    [][/\ sc'.seed = sc.seed
       /\ sc'.m = sc.m
       /\ DOMAIN sc'.cs = 0 .. sc.m - 1
       /\ \A k \in ShardKeys :
             /\ bucket(sc', k) = bucket(sc, k)
             /\ bucket(sc, k) \in 0 .. sc.m - 1
             /\ ShardsOf(sc', k) \subseteq {bucket(sc, k)}
             /\ Cardinality(ShardsOf(sc', k)) <= 1
       /\ pc' = "done" /\ ret'.op \in {"Set", "Add", "Replace", "Get", "Delete"}
             => ret'.pre = bucket(sc, ret'.k)
       /\ Did("Get")
             => \A k \in {ret'.k} :
                   (written[k].set /\ (written[k].due = 0 \/ now < written[k].due))
                       => ret'.ok /\ ret'.v = written[k].v]_vars

\* C14 happens: with more than one shard, two keys are stored in different
\* shards and a Get through the router has returned the value Set stored
C14_Witness ==
    /\ sc.m > 1
    /\ \E k1 \in ShardKeys, k2 \in ShardKeys :
          /\ ShardsOf(sc, k1) # {} /\ ShardsOf(sc, k2) # {}
          /\ ShardsOf(sc, k1) # ShardsOf(sc, k2)
    /\ pc = "done" /\ ret.op = "Get" /\ ret.ok
    /\ written[ret.k].set /\ ret.v = written[ret.k].v /\ ret.v # Zero

----------------------------------------------------------------------------
(* Items and its caller.  Go maps are references: the caller of Items      *)
(* holds a reference to the map Items built, and writes through it.        *)

\* Items handing out c.items itself
MakeItems_view(m, t) == [ref |-> "items", m |-> EmptyMap]

\* "m := make(map[string]Item, len(c.items))", the loop that fills it, and
\* "return m"
MakeItems(m, t) == [ref |-> "fresh", m |-> ItemsResult(m, t)]

\* the contents of the map h refers to, c.items being its
Deref(h, its) == IF h.ref = "items" THEN its ELSE h.m

ItemsInit ==
    /\ items = EmptyMap
    /\ defaultExpiration = newCachePro(MaxTTL)
    /\ onEvicted = Nil
    /\ delFunc = Nil
    /\ mu = "unlocked"
    /\ now = 1
    /\ pc = "idle"
    /\ frame = NoFrame
    /\ calls = <<>>
    /\ ret = NoResult
    /\ written = [k \in Keys |-> NoWrite]
    /\ g = <<>>
    /\ items0 = EmptyMap
    /\ jan = NoJanitor
    /\ sc = NoShards
    /\ snap = NoSnapshot

\* what the caller's use of the returned map leaves as it is
rest == <<defaultExpiration, onEvicted, delFunc, mu, now, frame, calls,
          written, g, items0, jan, sc>>

\* CachePro.Items, and the caller keeping the map it returned
ItemsCall ==
    /\ CanCall
    /\ snap' = MakeItems(items, now)
    /\ ret' = Result("Items", NoKey, Deref(snap', items), TRUE, Zero)
    /\ pc' = "done"
    /\ UNCHANGED <<items, rest>>

\* the caller's "m[k] = Item{Object: x}" on the map Items returned
WriteReturned(k, x) ==
    /\ pc = "idle"
    /\ snap.ref # Nil
    /\ LET it == [Object |-> x, Expiration |-> 0]
       IN  IF snap.ref = "items"
           THEN items' = Put(items, k, it) /\ UNCHANGED snap
           ELSE snap' = [snap EXCEPT !.m = Put(@, k, it)] /\ UNCHANGED items
    /\ UNCHANGED <<rest, pc, ret>>

\* the caller's "delete(m, k)" on the map Items returned
DeleteReturned(k) ==
    /\ pc = "idle"
    /\ snap.ref # Nil
    /\ IF snap.ref = "items"
       THEN items' = Remove(items, k) /\ UNCHANGED snap
       ELSE snap' = [snap EXCEPT !.m = Remove(@, k)] /\ UNCHANGED items
    /\ UNCHANGED <<rest, pc, ret>>

ItemsNext ==
    \/ Tick
    \/ Resume
    \/ \E k \in Keys, x \in Values, d \in {NoExpiration, MaxTTL} : Set(k, x, d)
    \/ \E k \in Keys : Delete(k)
    \/ delete
    \/ DeleteUnlock
    \/ Flush
    \/ ItemCount
    \/ ItemsCall
    \/ \E k \in Keys : WriteReturned(k, MaxVal)
    \/ \E k \in Keys : DeleteReturned(k)

ItemsSpec == ItemsInit /\ [][ItemsNext]_vars

\* the step is the caller's write to, or delete from, the returned map
CallerWrites == pc = "idle" /\ pc' = "idle" /\ now' = now

----------------------------------------------------------------------------
(* The expiration test of the read paths (checked under Spec)              *)

\* an expiration is set and is at or before t
ExpiredAtOrBefore(it, t) == it.Expiration > 0 /\ it.Expiration <= t

\* an expiration is set and is strictly before t
ExpiredBefore(it, t) == it.Expiration > 0 /\ it.Expiration < t

\* every read path treats an entry as expired exactly when E says so: Get and
\* GetWithExpiration find k, Replace succeeds, Add fails, Compute and
\* ComputeWithExpiration call computeFunc, ComputeTwoKeys succeeds, Items
\* copies k, exactly when k is in the map and not expired; DeleteExpired's
\* loop deletes k exactly when it is expired at the sweep's clock reading
ReadPathsTest(E(_, _)) ==
    LET Live(k) == k \in DOMAIN items /\ ~E(items[k], now)
    IN  /\ Did("Get") => ret'.ok = Live(ret'.k)
        /\ Did("GetWithExpiration") => ret'.ok = Live(ret'.k)
        /\ Did("Add") => ret'.ok = ~Live(ret'.k)
        /\ Did("Replace") => ret'.ok = Live(ret'.k)
        /\ Did("Compute") => (calls' # <<>>) = Live(ret'.k)
        /\ Did("ComputeWithExpiration") => (calls' # <<>>) = Live(ret'.k)
        /\ Did("ComputeTwoKeys") => ret'.ok = (Live(ret'.pre[1]) /\ Live(ret'.pre[2]))
        /\ Did("Items") => DOMAIN ret'.v = {k \in DOMAIN items : Live(k)}
        /\ (pc = "range" /\ frame'.todo # frame.todo)
              => \A k \in frame.todo \ frame'.todo :
                    (pc' = "delete") = E(items[k], frame.now)

\* C18 as stated: an entry is treated as expired exactly when its expiration
\* is set and is less than or equal to the current time, the instant of
\* equality included, on every read path
C18_ExpiredAtInstant == [][ReadPathsTest(ExpiredAtOrBefore)]_vars

\* C18 as amended: an entry is treated as expired exactly when its
\* expiration is set (positive) and strictly less than the current time, and
\* this one test is applied on every read path
C18_ExpiredAfterInstant == [][ReadPathsTest(ExpiredBefore)]_vars

\* C18 happens: at the instant of its expiration an entry has been found by
\* Get
C18_Witness ==
    /\ pc = "done" /\ ret.op = "Get" /\ ret.ok
    /\ ret.k \in DOMAIN items
    /\ items[ret.k].Expiration = now

----------------------------------------------------------------------------
(* The eviction callback (checked under Spec)                              *)

\* the calls of the eviction callback among cs
OnEvictedCalls(cs) == SelectSeq(cs, LAMBDA c : c.f = "onEvicted")

\* the step calls the eviction callback
Evicts ==
    /\ Len(calls') = Len(calls) + 1
    /\ calls'[Len(calls')].f = "onEvicted"

\* C19: Set stores its entry whatever k held and calls no callback; a method
\* other than Delete and DeleteExpired returns without having called the
\* eviction callback; a step calls the eviction callback only in Delete or
\* DeleteExpired, for an entry that call has removed and not yet reported,
\* and every entry these remove while a callback is set is reported once
C19_EvictionOnlyOnRemoval ==
    [][/\ Did("Set")
            => /\ \E d \in Durations :
                     items' = Put(items, ret'.k,
                                  SetItem(defaultExpiration, now, ret'.v, d))
               /\ calls' = <<>>
       /\ (pc # "done" /\ pc' = "done" /\ ret'.op \notin {"Delete", "DeleteExpired"})
            => OnEvictedCalls(calls') = <<>>
       /\ Evicts
            => /\ frame.op \in {"Delete", "DeleteExpired"}
               /\ mu = "unlocked" \/ mu' = "unlocked"
               /\ calls'[Len(calls')].k \notin DOMAIN items
               /\ IF frame.op = "Delete"
                  THEN /\ frame.evicted
                       /\ calls'[Len(calls')] =
                              CallOnEvicted(onEvicted, frame.k, frame.ov)
                       /\ OnEvictedCalls(calls) = <<>>
                  ELSE /\ frame.evictedItems # <<>>
                       /\ calls'[Len(calls')] =
                              CallOnEvicted(onEvicted, Head(frame.evictedItems).key,
                                            Head(frame.evictedItems).value)
                       /\ frame'.evictedItems = Tail(frame.evictedItems)
       /\ \A k \in DOMAIN items \ DOMAIN items' :
             frame.op \in {"Delete", "DeleteExpired"}
                => IF frame.op = "Delete"
                   THEN /\ frame'.evicted = (onEvicted # Nil)
                        /\ frame'.evicted
                              => frame'.k = k /\ frame'.ov = items[k].Object
                   ELSE frame'.evictedItems =
                            IF onEvicted # Nil
                            THEN Append(frame.evictedItems,
                                        [key |-> k, value |-> items[k].Object])
                            ELSE frame.evictedItems
       /\ Did("Delete")
            => OnEvictedCalls(calls') =
                  IF ret'.ok /\ onEvicted # Nil
                  THEN <<CallOnEvicted(onEvicted, ret'.k, ret'.v)>>
                  ELSE <<>>
       /\ Did("DeleteExpired") => frame.evictedItems = <<>>
      ]_vars

\* C19 happens: with an eviction callback set, Set has overwritten an entry
\* and has returned with no callback called
C19_Witness ==
    /\ pc = "done" /\ ret.op = "Set"
    /\ ret.pre = TRUE
    /\ onEvicted # Nil
    /\ calls = <<>>

----------------------------------------------------------------------------
(* The sweep, with the clock running and the user calling Set while the    *)
(* janitor is in DeleteExpired (checked under JanitorSpec)                 *)

\* the step is one of the sweep's own (Set and the clock leave pc and frame)
SweepStep == frame.op = "DeleteExpired" /\ <<pc, frame>>' # <<pc, frame>>

\* the step calls the destructor
Destructs ==
    /\ Len(calls') = Len(calls) + 1
    /\ calls'[Len(calls')].f = "delFunc"

\* C20: DeleteExpired removes an entry only under its lock and only if the
\* entry's expiration is set and had passed when the sweep read the clock,
\* so that a Get at the moment of removal would not find it; it passes over
\* every other entry (one with no expiration, one set with a fresh TTL after
\* the sweep read the clock) and, when it unlocks, the map holds no entry
\* whose expiration had passed; the destructor, if any, is called once for
\* each removed entry, with its value, just before the removal; and the
\* eviction callback, if set, once for each removed entry after the unlock,
\* with its key and value
C20_DeleteExpired ==
    [][/\ \A k \in DOMAIN items \ DOMAIN items' :
             frame.op = "DeleteExpired"
                => /\ SweepStep
                   /\ mu = "locked"
                   /\ k = frame.k
                   /\ items[k].Expiration > 0
                   /\ items[k].Expiration < frame.now
                   /\ ~GetResult(items, now, k).found
                   /\ IF delFunc # Nil
                      THEN /\ pc = "delFunc"
                           /\ calls[Len(calls)] = CallDelFunc(delFunc, items[k].Object)
                      ELSE pc = "delete"
                   /\ frame'.evictedItems =
                          IF onEvicted # Nil
                          THEN Append(frame.evictedItems,
                                      [key |-> k, value |-> items[k].Object])
                          ELSE frame.evictedItems
       /\ (frame.op = "DeleteExpired" /\ ~SweepStep)
             => \A k \in DOMAIN items' :
                   (k \notin DOMAIN items \/ items'[k] # items[k])
                       => ~expired(items'[k], frame.now)
       /\ (SweepStep /\ pc = "range" /\ pc' = "range")
             => \A k \in frame.todo \ frame'.todo :
                   /\ items[k].Expiration = 0 \/ items[k].Expiration >= frame.now
                   /\ items' = items
       /\ (SweepStep /\ pc = "range" /\ pc' = "callbacks")
             => \A k \in DOMAIN items :
                   items[k].Expiration = 0 \/ items[k].Expiration >= frame.now
       /\ (SweepStep /\ Destructs)
             => /\ pc = "delete" /\ pc' = "delFunc"
                /\ frame.k \in DOMAIN items
                /\ calls'[Len(calls')] = CallDelFunc(delFunc, items[frame.k].Object)
       /\ (SweepStep /\ pc = "delFunc")
             => frame.k \in DOMAIN items /\ items' = Remove(items, frame.k)
       /\ (SweepStep /\ Evicts)
             => /\ mu = "unlocked"
                /\ frame.evictedItems # <<>>
                /\ calls'[Len(calls')] =
                       CallOnEvicted(onEvicted, Head(frame.evictedItems).key,
                                     Head(frame.evictedItems).value)
                /\ frame'.evictedItems = Tail(frame.evictedItems)
       /\ Did("DeleteExpired") => frame.evictedItems = <<>>
      ]_vars

\* C20 happens: a sweep has gone through the map, has removed an expired
\* entry (destructor called, eviction pending) and has left an entry with an
\* expiration that a Get still finds
C20_Witness ==
    /\ frame.op = "DeleteExpired" /\ pc = "range" /\ frame.todo = {}
    /\ calls # <<>> /\ frame.evictedItems # <<>>
    /\ Cardinality(DOMAIN items) = 1
    /\ \E k \in DOMAIN items :
          items[k].Expiration > 0 /\ GetResult(items, now, k).found

----------------------------------------------------------------------------
(* The life of the janitor (checked under JanitorSpec)                     *)

\* the sweeper's states: no goroutine; started and not yet running (Idle);
\* at its select or in a sweep (Running); returned (Stopped)
Running == jan.jpc \in {"select", "sweep"}

\* C21: a janitor goroutine exists exactly for a cleanup interval > 0; it
\* goes from started to running to returned and from returned nowhere; a
\* step of DeleteExpired is taken only while it is running, in a sweep; it
\* returns only in the step that receives the stop signal, and only from its
\* select, so that no sweep is left unfinished; once returned, it takes no
\* step of DeleteExpired and the map stays as it is
C21_SweeperLifecycle ==
    [][/\ (jan.jpc = "none") = (jan.ci <= 0)
       /\ jan'.ci = jan.ci
       /\ jan'.jpc # jan.jpc
             => <<jan.jpc, jan'.jpc>> \in {<<"go", "select">>, <<"select", "sweep">>,
                                           <<"sweep", "select">>,
                                           <<"select", "returned">>}
       /\ <<pc, frame>>' # <<pc, frame>>
             => Running /\ jan.jpc = "sweep"
       /\ (jan'.jpc = "returned" /\ jan.jpc # "returned")
             => /\ jan.fpc = "send" /\ jan'.fpc = "sent"
                /\ pc = "idle" /\ frame = NoFrame /\ mu = "unlocked"
       /\ jan.jpc = "returned"
             => jan'.jpc = "returned" /\ <<pc, frame, items, calls>>' = <<pc, frame, items, calls>>
      ]_vars

\* C21 happens: the stop signal is being sent while the janitor of a CachePro
\* is in the middle of a sweep that has already removed an entry
C21_Witness ==
    /\ jan.kind = "pro" /\ jan.fpc = "send"
    /\ jan.jpc = "sweep" /\ pc = "range" /\ mu = "locked"
    /\ calls # <<>>

\* k is in the map and its expiration has passed
Overdue(k) == k \in DOMAIN items /\ expired(items[k], now)

\* C22: while the janitor of a cache exists and has not returned, an entry
\* whose expiration has passed is eventually out of the map (or is set anew,
\* or the janitor is stopped first), no caller invoking Delete or
\* DeleteExpired: the only steps that remove are the janitor's
C22_ExpiredEventuallySwept ==
    \A k \in Keys :
        (jan.jpc \in {"go", "select", "sweep"} /\ jan.kind = "pro" /\ Overdue(k))
            ~> (~Overdue(k) \/ jan.jpc = "returned")

\* C22 happens: the janitor, not stopped, has finished a sweep that emptied
\* the map of its expired entries
C22_Witness ==
    /\ jan.kind = "pro" /\ jan.fpc = "set"
    /\ jan.jpc = "sweep" /\ pc = "done" /\ ret.op = "DeleteExpired"
    /\ calls # <<>>
    /\ items = EmptyMap

----------------------------------------------------------------------------
(* The hash on its own: djb33 applied to every key of up to MaxKeyLen      *)
(* bytes over two byte values, with every seed of Seeds                    *)

MaxKeyLen == 9
HashKeys == UNION {[1 .. n -> {97, 98}] : n \in 0 .. MaxKeyLen}

\* a call djb33(seed, k)
Hash(seed, k) ==
    /\ pc = "idle"
    /\ ret' = Result("djb33", k, djb33(seed, k), TRUE, seed)
    /\ pc' = "done"
    /\ UNCHANGED <<single, sc, written>>

HashNext ==
    \/ \E seed \in Seeds, k \in HashKeys : Hash(seed, k)
    \/ ShardedResume

HashSpec == Init /\ [][HashNext]_vars

RECURSIVE MixAll(_, _, _)
\* the bytes of k from position i on mixed into d, each in its turn
MixAll(d, i, k) == IF i > Len(k) THEN d ELSE MixAll(Mix(d, k[i]), i + 1, k)

\* the reference hash: from 5381 + seed + len(k), every byte of k mixed in
\* in order, then d xor (d shifted right by half the word)
djb33Reference(seed, k) ==
    LET d == MixAll((5381 + seed + Len(k)) % Word, 1, k)
    IN  Xor(d, d \div (2 ^ (WordBits \div 2)))

\* C23: djb33(seed, k) equals the reference hash that mixes in every byte of
\* k from the first to the last, and keys of equal length that differ in one
\* byte, the last included, are hashed from different bytes: the result for
\* k is the reference's, which reads every position of k
C23_EqualsReference ==
    (pc = "done" /\ ret.op = "djb33") => ret.v = djb33Reference(ret.pre, ret.k)

----------------------------------------------------------------------------
(* The frame of the sharded cache's methods (checked under ShardedSpec)    *)

SingleKeyMethods ==
    {"Set", "Add", "Replace", "Get", "Delete", "Increment", "Decrement"}

\* C24: a single-key method on k has acted on the shard bucket(k), the one
\* that holds k or comes to hold it, and has left the map of every other
\* shard as it was; DeleteExpired has swept every shard, Flush has emptied
\* every shard, and Items has returned, shard by shard in the shards' order,
\* the Items of each shard and has changed none
C24_ShardFrame ==
    [][/\ (pc # "done" /\ pc' = "done" /\ ret'.op \in SingleKeyMethods)
            => LET k == ret'.k
                   b == bucket(sc, k)
               IN  /\ ret'.pre = b
                   /\ \A i \in DOMAIN sc.cs \ {b} : sc'.cs[i] = sc.cs[i]
                   /\ \A j \in DOMAIN sc.cs[b] \ {k} :
                         j \in DOMAIN sc'.cs[b] /\ sc'.cs[b][j] = sc.cs[b][j]
                   /\ ret'.op = "Set"
                         => k \in DOMAIN sc'.cs[b] /\ sc'.cs[b][k].Object = ret'.v
                   /\ ret'.op = "Add"
                         => ret'.ok = ~GetResult(sc.cs[b], now, k).found
                   /\ ret'.op \in {"Replace", "Increment", "Decrement"}
                         => ret'.ok = GetResult(sc.cs[b], now, k).found
                   /\ (ret'.op \in {"Add", "Replace", "Increment", "Decrement"} /\ ret'.ok)
                         => k \in DOMAIN sc'.cs[b] /\ sc'.cs[b][k].Object = ret'.v
                   /\ (ret'.op \in {"Add", "Replace", "Increment", "Decrement"} /\ ~ret'.ok)
                         => sc' = sc
                   /\ ret'.op = "Get"
                         => /\ sc' = sc
                            /\ [v |-> ret'.v, found |-> ret'.ok]
                                   = GetResult(sc.cs[b], now, k)
                   /\ ret'.op = "Delete" => k \notin DOMAIN sc'.cs[b]
       /\ Did("DeleteExpired")
            => \A i \in 0 .. sc.m - 1 : sc'.cs[i] = Swept(sc.cs[i], now)
       /\ Did("Flush")
            => \A i \in 0 .. sc.m - 1 : sc'.cs[i] = EmptyMap
       /\ Did("Items")
            => /\ sc' = sc
               /\ DOMAIN ret'.v = 0 .. sc.m - 1
               /\ \A i \in 0 .. sc.m - 1 : ret'.v[i] = ItemsResult(sc.cs[i], now)
      ]_vars

\* C24 happens: in a cache of several shards Increment has raised the value
\* of an entry of one shard while another shard holds an entry
C24_Witness ==
    /\ sc.m > 1
    /\ pc = "done" /\ ret.op = "Increment" /\ ret.ok
    /\ \E i \in DOMAIN sc.cs \ {ret.pre} : DOMAIN sc.cs[i] # {}

----------------------------------------------------------------------------
(* GetWithExpiration against Get (checked under Spec)                      *)

\* C25: GetWithExpiration(k) returns found exactly when Get(k) would in the
\* state it is called in, with the value Get would return; for a found entry
\* with an expiration (Expiration > 0) the time returned is that instant,
\* time.Unix(0, Expiration), for a found entry that never expires it is the
\* zero time, as it is when nothing is found; and the call changes nothing
C25_GetWithExpiration ==
    [][Did("GetWithExpiration")
         => LET k == ret'.k
                r == GetResult(items, now, k)
            IN  /\ ret'.ok = r.found
                /\ ret'.v.v = r.v
                /\ (r.found /\ items[k].Expiration > 0)
                      => ret'.v.exp = UnixTime(items[k].Expiration)
                /\ (r.found /\ items[k].Expiration <= 0)
                      => ret'.v.exp = ZeroTime
                /\ ~r.found => ret'.v.exp = ZeroTime
                /\ <<items, defaultExpiration, onEvicted, delFunc, mu, now,
                     calls>>' =
                   <<items, defaultExpiration, onEvicted, delFunc, mu, now,
                     calls>>
      ]_vars

\* C25 happens: GetWithExpiration has returned a live entry with its
\* expiration instant, ...
C25_WitnessFound ==
    /\ pc = "done" /\ ret.op = "GetWithExpiration" /\ ret.ok
    /\ ~ret.v.exp.isZero /\ ret.v.exp.ns = items[ret.k].Expiration

\* ... and it has turned down an entry that is stored and expired
C25_Witness ==
    /\ pc = "done" /\ ret.op = "GetWithExpiration" /\ ~ret.ok
    /\ ret.k \in DOMAIN items
    /\ expired(items[ret.k], now)

----------------------------------------------------------------------------
(* Delete and DeleteExpired beside a goroutine that sets the eviction      *)
(* callback.                                                               *)

Callbacks == {Nil, "callback", "other"}

\* another goroutine's OnEvicted(f): c.mu.Lock(), c.onEvicted = f,
\* c.mu.Unlock(), whenever the lock is free
OnEvictedBeside(f) ==
    /\ mu = "unlocked"
    /\ onEvicted' = f
    /\ UNCHANGED <<items, config, mu, now, pc, frame, calls, ret, written>>

EvictNext ==
    \/ Tick
    \/ Resume
    \/ \E k \in Keys, x \in Values, d \in {NoExpiration, MaxTTL} : Set(k, x, d)
    \/ \E f \in Callbacks : OnEvictedBeside(f)
    \/ \E k \in Keys : Delete(k)
    \/ delete
    \/ delFuncReturn
    \/ DeleteUnlock
    \/ DeleteCallback
    \/ onEvictedReturn
    \/ DeleteExpired
    \/ DeleteExpiredLock
    \/ DeleteExpiredRange
    \/ DeleteExpiredUnlock
    \/ DeleteExpiredCallbacks

EvictSpec == Init /\ [][EvictNext]_vars

\* C26: whenever Delete or DeleteExpired calls the eviction callback, the
\* function it calls is not nil and is the one that was configured when the
\* entry was removed under the lock, whatever OnEvicted(f) or OnEvicted(nil)
\* another goroutine has made in between
C26_CallbackAsConfigured ==
    [][(Len(calls') = Len(calls) + 1 /\ calls'[Len(calls')].f = "onEvicted")
          => /\ calls'[Len(calls')].fn # Nil
             /\ calls'[Len(calls')].fn = frame.fn
      ]_vars

----------------------------------------------------------------------------
(* The destructor (checked under Spec)                                     *)

\* the calls of the destructor among cs
DelFuncCalls(cs) == SelectSeq(cs, LAMBDA c : c.f = "delFunc")

\* C27: the destructor is called only inside Delete or DeleteExpired, by
\* c.delete, with the value of an entry that is in the map and that the same
\* c.delete removes as soon as the destructor returns, making no second call
\* (so at most once for each stored entry); every other method (Set, Add,
\* Replace, the Compute family, Flush and the reads) returns without having
\* called the destructor, whatever value it overwrote or dropped
C27_DestructorOnlyOnRemoval ==
    [][/\ Destructs
            => /\ pc = "delete" /\ pc' = "delFunc"
               /\ frame.op \in {"Delete", "DeleteExpired"}
               /\ frame.k \in DOMAIN items
               /\ items' = items
               /\ calls'[Len(calls')] = CallDelFunc(delFunc, items[frame.k].Object)
               /\ delFunc # Nil
       /\ (pc = "delFunc" /\ pc' # pc)
            => /\ frame.k \in DOMAIN items
               /\ items' = Remove(items, frame.k)
               /\ calls' = calls
       /\ (pc = "delFunc" /\ pc' = pc) => items' = items /\ calls' = calls
       /\ (pc # "done" /\ pc' = "done"
             /\ ret'.op \notin {"Delete", "DeleteExpired"})
            => DelFuncCalls(calls') = <<>>
       /\ Did("Delete")
            => Len(DelFuncCalls(calls'))
                  = IF ret'.ok /\ delFunc # Nil THEN 1 ELSE 0
      ]_vars

\* C27 happens: with a destructor configured, Replace has overwritten the
\* value of a live entry and returned
C27_Witness ==
    /\ delFunc # Nil
    /\ pc = "done" /\ ret.op = "Replace" /\ ret.ok
    /\ items[ret.k].Object # Zero

\* ... and DeleteExpired has returned after the destructor was called for
\* each of two expired entries
C27_WitnessSweep ==
    /\ delFunc # Nil
    /\ pc = "done" /\ ret.op = "DeleteExpired"
    /\ Len(DelFuncCalls(calls)) = 2
    /\ items = EmptyMap

----------------------------------------------------------------------------
(* The expiration stored for a positive duration (checked under Spec)      *)

\* the step has stored under k an expiration that is a positive instant
\* after the clock reading of the write
StoresFuture(k) ==
    /\ k \in DOMAIN items'
    /\ items'[k].Expiration > 0
    /\ items'[k].Expiration > now

\* C28: for every duration d whose resolved value is positive, however
\* large, the expiration that Set, Add, Replace, ComputeWithExpiration and
\* ComputeTwoKeys store is positive and greater than the time of the write
\* (now + d does not wrap around), so that the entry written is neither one
\* that never expires nor one already expired
C28_PositiveTTLStoresFuture ==
    [][\A k \in Keys, d \in Durations :
          Resolved(d) > 0
            => /\ \A x \in Values :
                     /\ (Did("Set") /\ Set(k, x, d)) => StoresFuture(k)
                     /\ (Did("Add") /\ ret'.ok /\ Add(k, x, d))
                           => StoresFuture(k)
                     /\ (Did("Replace") /\ ret'.ok /\ Replace(k, x, d))
                           => StoresFuture(k)
               /\ \A f \in Funcs, def \in Values :
                     (Did("ComputeWithExpiration")
                        /\ ComputeWithExpiration(k, f, def, d))
                           => StoresFuture(k)
               /\ \A k1 \in Keys, k2 \in Keys, f \in Funcs :
                     (Did("ComputeTwoKeys") /\ ret'.ok
                        /\ ComputeTwoKeys(k1, k2, f, k, d))
                           => StoresFuture(k)
      ]_vars

============================================================================
